---- MODULE Spec2Model ----
(***************************************************************************)
(* go-vjson: versioned JSON serialization.                                 *)
(*                                                                         *)
(* The model follows the package source (src/main.go, lines 293-678):      *)
(* the registry entryByType, registerError, Marshal, Unmarshal,            *)
(* copyFields, callErrorFunction and unmarshalVersion.  Struct types are   *)
(* descriptors (the part of reflect.Type the package reads), values are    *)
(* tagged, and the bytes exchanged with encoding/json are token            *)
(* sequences, so that encoding, splicing and parsing are computed.         *)
(***************************************************************************)
EXTENDS Integers, Sequences, FiniteSets, TLC

(***************************************************************************)
(* Bounds of the model.                                                    *)
(***************************************************************************)
\* Largest "Version" number carried by an input object.
MaxTag == 4
\* Largest number of entries the registry holds at once.
MaxEntries == 1
\* Largest number fmt.Sscanf reads back from a hexadecimal numeral.
MaxScan == 255
\* The goroutines calling Marshal and Unmarshal concurrently.
NumThreads == 2

(***************************************************************************)
(* Values.  Every value carries its Go type.                               *)
(***************************************************************************)
IntV(n) == [t |-> "int", v |-> n]
StrV(s) == [t |-> "string", v |-> s]
\* A struct value: its type and the sequence of its field values.
StructV(T, fs) == [t |-> T, v |-> fs]

\* The nil error.
NoErr == [text |-> "", args |-> <<>>]
\* A method value (reflect.Method.Func) and the zero reflect.Value.
Func(T, name) == [T |-> T, name |-> name]
NoFunc == Func("", "")
IsValid(f) == f # NoFunc
\* The nil reflect.Type.
NilType == ""

\* fmt.Errorf(format, args...): the format and its arguments, each as the
\* text it is printed as.
Errorf(format, args) == [text |-> format, args |-> args]

\* The digits of fmt's %d and %x verbs.
Digit(d) ==
    CASE d = 0 -> "0" [] d = 1 -> "1" [] d = 2 -> "2" [] d = 3 -> "3"
      [] d = 4 -> "4" [] d = 5 -> "5" [] d = 6 -> "6" [] d = 7 -> "7"
      [] d = 8 -> "8" [] d = 9 -> "9" [] d = 10 -> "a" [] d = 11 -> "b"
      [] d = 12 -> "c" [] d = 13 -> "d" [] d = 14 -> "e" [] d = 15 -> "f"

RECURSIVE Digits(_, _)
Digits(n, base) ==
    IF n < base THEN Digit(n) ELSE Digits(n \div base, base) \o Digit(n % base)

\* fmt.Sprintf("%d", n) and fmt.Sprintf("%x", n).
Dec(n) == IF n < 0 THEN "-" \o Digits(0 - n, 10) ELSE Digits(n, 10)
Hex(n) == IF n < 0 THEN "-" \o Digits(0 - n, 16) ELSE Digits(n, 16)

(***************************************************************************)
(* Struct types: the fields (name, type, vjson tag, embedded, and the key  *)
(* encoding/json gives the field: its name, or the name of its json tag)  *)
(* and the methods of the pointer type.  The types are those of the       *)
(* package's tests and examples, and a few more in their style: SimpleOptV1*)
(* and ExampleOptV1 (a latest version with a Version field, as            *)
(* DynamicOptimizedV3), Checked (an Upgrade hook that fails on some       *)
(* inputs, and one that writes a copied field), Legacy (a version 1 with  *)
(* a Version field that version 2 copies), Tagged (a live type with a     *)
(* Version field), Renamed (a Version field with a json tag),             *)
(* ExamplePackV1 and ExampleUnpackV1 (a latest version with one of the    *)
(* two hooks), EmbeddedFlatV2 and EmbeddedTagV2 (fields named as a field  *)
(* promoted from an embedded struct), ClearedV3 (an empty vjson tag on a   *)
(* field the version before declares with the same type), SimplePackV1    *)
(* and SimpleUnpackV1 (one hook, and the fields of the live type) and      *)
(* RenamingV3 (a tag that names another field of the live type).           *)
(***************************************************************************)
\* A field, a field with a vjson tag, a field with a json tag, an embedded struct.
F(name, type) ==
    [name |-> name, type |-> type, hasTag |-> FALSE, tag |-> "", emb |-> FALSE, json |-> name]
FT(name, type, tag) ==
    [name |-> name, type |-> type, hasTag |-> TRUE, tag |-> tag, emb |-> FALSE, json |-> name]
FJ(name, type, json) ==
    [name |-> name, type |-> type, hasTag |-> FALSE, tag |-> "", emb |-> FALSE, json |-> json]
FE(type) ==
    [name |-> type, type |-> type, hasTag |-> FALSE, tag |-> "", emb |-> TRUE, json |-> type]

StructTypes ==
    { "versionContainer",
      "User", "UserV1", "UserV2", "UserV3",
      "Simple", "SimpleV1", "SimpleOptV1",
      "Upgrade", "UpgradeV1", "UpgradeV2",
      "UpgradeError", "UpgradeErrorV1", "UpgradeErrorV2",
      "Checked", "CheckedV1", "CheckedV2", "CheckedV3",
      "Example", "ExampleV1", "ExampleOptV1",
      "RawError", "RawErrorV1",
      "Legacy", "LegacyV1", "LegacyV2",
      "Empty", "EmptyV1",
      "Multiple", "MultipleV1", "MultipleV2", "MultipleV3",
      "Tagged",
      "Renamed", "RenamedV1", "RenamedV2",
      "EmbeddedChild", "EmbeddedParent", "EmbeddedParentV1", "EmbeddedParentV2",
      "TypeMismatchA", "TypeMismatchAV1",
      "TypeMismatchB", "TypeMismatchBV1", "TypeMismatchBV2",
      "TypeMismatchC", "TypeMismatchCV1", "TypeMismatchCV2",
      "ExamplePackV1", "ExampleUnpackV1",
      "Renaming", "RenamingV1", "RenamingV2",
      "EmbeddedFlatV2", "EmbeddedTagV2",
      "ClearedV3",
      "SimplePackV1", "SimpleUnpackV1",
      "RenamingV3" }

\* A prototype that is not a struct (registerError(1, ...)).
NonStructTypes == { "int" }

Fields(T) ==
    CASE T = "versionContainer" -> << F("Version", "int") >>
      [] T = "User"     -> << F("ID", "string"), F("UserName", "string"), F("DisplayName", "string") >>
      [] T = "UserV1"   -> << F("ID", "int"), F("Name", "string") >>
      [] T = "UserV2"   -> << F("ID", "int"), FT("UserName", "string", "Name"),
                              FT("DisplayName", "string", "Name") >>
      [] T = "UserV3"   -> << FT("ID", "string", ""), F("UserName", "string"),
                              F("DisplayName", "string") >>
      [] T = "Simple"   -> << F("Text", "string"), F("Number", "int") >>
      [] T = "SimpleV1" -> << F("Text", "string"), F("Number", "int") >>
      [] T = "SimpleOptV1" -> << F("Version", "int"), F("Text", "string"), F("Number", "int") >>
      [] T = "Upgrade"   -> << F("BA", "string") >>
      [] T = "UpgradeV1" -> << F("A", "string") >>
      [] T = "UpgradeV2" -> << F("BA", "string") >>
      [] T = "UpgradeError"   -> << F("BA", "string") >>
      [] T = "UpgradeErrorV1" -> << F("A", "string") >>
      [] T = "UpgradeErrorV2" -> << F("BA", "string") >>
      [] T = "Checked"   -> << F("BA", "string") >>
      [] T = "CheckedV1" -> << F("A", "string") >>
      [] T = "CheckedV2" -> << F("A", "string"), F("BA", "string") >>
      [] T = "CheckedV3" -> << F("A", "string"), F("BA", "string") >>
      [] T = "Example"   -> << F("Value", "int") >>
      [] T = "ExampleV1" -> << F("Value", "string") >>
      [] T = "ExampleOptV1" -> << F("Value", "string"), F("Version", "int") >>
      [] T = "RawError"   -> << F("Message", "string") >>
      [] T = "RawErrorV1" -> << F("Message", "json.RawMessage") >>
      [] T = "Legacy"   -> << F("OldVer", "int"), F("Text", "string") >>
      [] T = "LegacyV1" -> << F("Version", "int"), F("Text", "string") >>
      [] T = "LegacyV2" -> << FT("OldVer", "int", "Version"), F("Text", "string") >>
      [] T = "Empty"   -> << >>
      [] T = "EmptyV1" -> << >>
      [] T = "Tagged"  -> << F("Text", "string"), F("Version", "int") >>
      [] T = "Renamed"   -> << F("Text", "string") >>
      [] T = "RenamedV1" -> << F("Text", "string") >>
      [] T = "RenamedV2" -> << FJ("Version", "int", "v"), F("Text", "string") >>
      [] T = "Multiple"   -> << F("B", "string"), F("C", "string"), F("D", "string") >>
      [] T = "MultipleV1" -> << F("A", "string"), F("B", "string") >>
      [] T = "MultipleV2" -> << F("A", "string"), F("B", "string"), F("C", "string") >>
      [] T = "MultipleV3" -> << F("B", "string"), F("C", "string"), F("D", "string") >>
      [] T = "EmbeddedChild"    -> << F("A", "string") >>
      [] T = "EmbeddedParent"   -> << FE("EmbeddedChild") >>
      [] T = "EmbeddedParentV1" -> << FE("EmbeddedChild") >>
      [] T = "EmbeddedParentV2" -> << FE("EmbeddedChild") >>
      [] T = "TypeMismatchA"   -> << F("Message", "string") >>
      [] T = "TypeMismatchAV1" -> << F("Message", "int") >>
      [] T = "TypeMismatchB"   -> << F("Message", "string") >>
      [] T = "TypeMismatchBV1" -> << F("Message", "int") >>
      [] T = "TypeMismatchBV2" -> << F("Message", "string") >>
      [] T = "TypeMismatchC"   -> << F("Message", "string") >>
      [] T = "TypeMismatchCV1" -> << F("OldMessage", "int") >>
      [] T = "TypeMismatchCV2" -> << FT("Message", "string", "OldMessage") >>
      [] T = "ExamplePackV1"   -> << F("Value", "string") >>
      [] T = "ExampleUnpackV1" -> << F("Value", "string") >>
      [] T = "Renaming"   -> << F("X", "string"), F("Y", "string") >>
      [] T = "RenamingV1" -> << F("A", "string"), F("B", "string") >>
      [] T = "RenamingV2" -> << FT("X", "string", "A"), F("Y", "string") >>
      [] T = "RenamingV3" -> << F("X", "string"), FT("Y", "string", "X") >>
      [] T = "EmbeddedFlatV2" -> << F("A", "string") >>
      [] T = "EmbeddedTagV2"  -> << FT("B", "string", "A") >>
      [] T = "ClearedV3" -> << FT("A", "string", ""), F("BA", "string") >>
      [] T = "SimplePackV1"   -> << F("Text", "string"), F("Number", "int") >>
      [] T = "SimpleUnpackV1" -> << F("Text", "string"), F("Number", "int") >>
      [] OTHER -> << >>

\* reflect.PtrTo(T).MethodByName(name): the methods each type declares.
Methods(T) ==
    CASE T = "UserV3"         -> { "Upgrade" }
      [] T = "UpgradeV2"      -> { "Upgrade" }
      [] T = "UpgradeErrorV2" -> { "Upgrade" }
      [] T = "CheckedV2" -> { "Upgrade" }
      [] T = "CheckedV3" -> { "Upgrade" }
      [] T = "ClearedV3" -> { "Upgrade" }
      [] T = "ExampleV1"      -> { "Pack", "Unpack" }
      [] T = "ExampleOptV1"   -> { "Pack", "Unpack" }
      [] T = "RawErrorV1"     -> { "Pack", "Unpack" }
      [] T = "ExamplePackV1"   -> { "Pack" }
      [] T = "ExampleUnpackV1" -> { "Unpack" }
      [] T = "SimplePackV1"    -> { "Pack" }
      [] T = "SimpleUnpackV1"  -> { "Unpack" }
      [] OTHER -> { }

Kind(T) == IF T \in StructTypes THEN "struct" ELSE T
NumField(T) == Len(Fields(T))

(***************************************************************************)
(* reflect.Type.FieldByName: a direct field, or a field promoted from an   *)
(* embedded struct; the shallowest depth wins and an ambiguous name is not *)
(* found.  Index is the path of 0-based field indices.                     *)
(***************************************************************************)
RECURSIVE FieldPaths(_)
PathsOf(fs) ==
    { [Index |-> << i - 1 >>, Name |-> fs[i].name, Type |-> fs[i].type, Key |-> fs[i].json] :
          i \in 1..Len(fs) }
        \cup UNION { { [Index |-> << i - 1 >> \o p.Index, Name |-> p.Name, Type |-> p.Type,
                         Key |-> p.Key] :
                           p \in FieldPaths(fs[i].type) } :
                       i \in { j \in 1..Len(fs) : fs[j].emb } }

FieldPaths(T) == PathsOf(Fields(T))

NoField == [ok |-> FALSE, Index |-> << >>, Name |-> "", Type |-> ""]

Found(p) == [ok |-> TRUE, Index |-> p.Index, Name |-> p.Name, Type |-> p.Type]

Shallowest(cands) ==
    LET best == { p \in cands : \A q \in cands : Len(p.Index) <= Len(q.Index) }
    IN  IF Cardinality(best) = 1 THEN Found(CHOOSE p \in best : TRUE) ELSE NoField

FieldByName(T, name) == Shallowest({ p \in FieldPaths(T) : p.Name = name })

\* The field encoding/json reads an object's key into.
FieldByKey(T, key) == Shallowest({ p \in FieldPaths(T) : p.Key = key })

(***************************************************************************)
(* reflect.New(T).Elem(): the zero value of a struct type, a sequence of   *)
(* field values.                                                           *)
(***************************************************************************)
RECURSIVE Zero(_)
ZeroOf(fs) ==
    [ i \in 1..Len(fs) |->
        IF fs[i].type = "int" THEN IntV(0)
        ELSE IF fs[i].type = "string" THEN StrV("")
        ELSE StructV(fs[i].type, Zero(fs[i].type)) ]

Zero(T) == ZeroOf(Fields(T))

(***************************************************************************)
(* Field access by a 0-based index path (reflect.Value.FieldByIndex).      *)
(***************************************************************************)
RECURSIVE SetPath(_, _, _)
SetPath(val, Index, x) ==
    IF Len(Index) = 1 THEN [val EXCEPT ![Index[1] + 1] = x]
    ELSE [val EXCEPT ![Index[1] + 1] =
             StructV(val[Index[1] + 1].t, SetPath(val[Index[1] + 1].v, Tail(Index), x))]

(***************************************************************************)
(* The external codec, encoding/json, as the package uses it: bytes are    *)
(* sequences of tokens; a struct is written as an object whose keys are    *)
(* the fields' names, or the names their json tags give them, in           *)
(* declaration order (the fields of an embedded struct in its place), and  *)
(* read back by key.                                                       *)
(***************************************************************************)
Tok(s) == [tok |-> s, key |-> "", val |-> IntV(0)]
KV(k, x) == [tok |-> "kv", key |-> k, val |-> x]
LBrace == Tok("{")
RBrace == Tok("}")
Comma == Tok(",")
NullBytes == << Tok("null") >>
EmptyObject == << LBrace, RBrace >>

RECURSIVE EncodePairs(_, _)
RECURSIVE EncodeFrom(_, _, _)
EncodeFrom(fs, val, i) ==
    IF i > Len(fs) THEN << >>
    ELSE (IF fs[i].emb THEN EncodePairs(fs[i].type, val[i].v)
          ELSE << KV(fs[i].json, val[i]) >>) \o EncodeFrom(fs, val, i + 1)

EncodePairs(T, val) == EncodeFrom(Fields(T), val, 1)

RECURSIVE JoinPairs(_)
JoinPairs(pairs) ==
    IF Len(pairs) <= 1 THEN pairs
    ELSE << Head(pairs), Comma >> \o JoinPairs(Tail(pairs))

Object(pairs) == << LBrace >> \o JoinPairs(pairs) \o << RBrace >>

\* json.Marshal(value.Interface()) of a struct value of type T.
jsonMarshal(T, val) == [data |-> Object(EncodePairs(T, val)), err |-> NoErr]

SyntaxError == Errorf("json: invalid character", << >>)
UnmarshalTypeError(key, type) ==
    Errorf("json: cannot unmarshal value into Go struct field %v of type %v", << key, type >>)

\* The syntax check: an object is "{", members separated by ",", and "}".
WellFormed(data) ==
    /\ Len(data) >= 2
    /\ data[1] = LBrace
    /\ data[Len(data)] = RBrace
    /\ \/ Len(data) = 2
       \/ /\ Len(data) % 2 = 1
          /\ \A i \in 2..(Len(data) - 1) : IF i % 2 = 0 THEN data[i].tok = "kv"
                                           ELSE data[i] = Comma

\* The members of a well-formed object.
Members(data) == [ i \in 1..((Len(data) - 1) \div 2) |-> data[2 * i] ]

\* The object's members assigned in order: a later duplicate key wins, an
\* unknown key is skipped, and a value of the wrong type leaves the field and
\* is reported (the first such error) once the object has been read.
RECURSIVE DecodePairs(_, _, _, _)
DecodeField(T, pairs, val, err, f) ==
    IF ~f.ok THEN DecodePairs(T, Tail(pairs), val, err)
    ELSE IF Head(pairs).val.t # f.Type
    THEN DecodePairs(T, Tail(pairs), val,
                     IF err = NoErr THEN UnmarshalTypeError(Head(pairs).key, f.Type) ELSE err)
    ELSE DecodePairs(T, Tail(pairs), SetPath(val, f.Index, Head(pairs).val), err)

DecodePairs(T, pairs, val, err) ==
    IF pairs = << >> THEN [val |-> val, err |-> err]
    ELSE DecodeField(T, pairs, val, err, FieldByKey(T, Head(pairs).key))

\* json.Unmarshal(data, ptr) into a struct value val of type T.
jsonUnmarshal(data, T, val) ==
    IF data = NullBytes THEN [val |-> val, err |-> NoErr]
    ELSE IF ~WellFormed(data) THEN [val |-> val, err |-> SyntaxError]
    ELSE DecodePairs(T, Members(data), val, NoErr)

(***************************************************************************)
(* The registry (entryByType) and registration.                            *)
(***************************************************************************)
mapping(src, dst) == [src |-> src, dst |-> dst]

\* sort.Slice(mappings, less by src).  Mappings with the same src keep their
\* order here; their destinations differ, so copyFields does not depend on it.
RECURSIVE insertBySrc(_, _)
insertBySrc(sorted, m) ==
    IF sorted = << >> THEN << m >>
    ELSE IF m.src < Head(sorted).src THEN << m >> \o sorted
    ELSE << Head(sorted) >> \o insertBySrc(Tail(sorted), m)

RECURSIVE sortBySrc(_)
sortBySrc(mappings) ==
    IF mappings = << >> THEN << >>
    ELSE insertBySrc(sortBySrc(SubSeq(mappings, 1, Len(mappings) - 1)),
                     mappings[Len(mappings)])

\* The field loop of registerError for one version (lines 400-431): the
\* mappings from lastType into rtype, from field i on.
RECURSIVE versionMappings(_, _, _, _)

\* The match of a field without the comparison of the types (lines 422-427).
matchFieldOfAnyType(lastType, rtype, i, mappings, dstField, srcName, found) ==
    IF ~(found.ok /\ Len(found.Index) = 1)
    THEN IF dstField.hasTag
         THEN [err |-> Errorf("field %s in %v has tag %s, but there is no such field in %v",
                              << dstField.name, rtype, srcName, lastType >>),
               mappings |-> mappings]
         ELSE versionMappings(lastType, rtype, i + 1, mappings)
    ELSE versionMappings(lastType, rtype, i + 1, Append(mappings, mapping(found.Index[1], i)))

\* Lines 411-429: the source field found, or not, for field i of rtype.
matchField(lastType, rtype, i, mappings, dstField, srcName, found) ==
    \* ignore fields of embedded structs
    IF ~(found.ok /\ Len(found.Index) = 1)
    THEN IF dstField.hasTag
         THEN [err |-> Errorf("field %s in %v has tag %s, but there is no such field in %v",
                              << dstField.name, rtype, srcName, lastType >>),
               mappings |-> mappings]
         ELSE versionMappings(lastType, rtype, i + 1, mappings)
    ELSE IF found.Type # dstField.type
    THEN IF found.Name # dstField.name
         THEN [err |-> Errorf("cannot copy field %s (%v) in %v to field %s (%v) in %v because they have different types",
                              << found.Name, found.Type, lastType,
                                 dstField.name, dstField.type, rtype >>),
               mappings |-> mappings]
         ELSE [err |-> Errorf("field %s has different types in %v (%v) and %v (%v)",
                              << found.Name, lastType, found.Type, rtype, dstField.type >>),
               mappings |-> mappings]
    ELSE versionMappings(lastType, rtype, i + 1, Append(mappings, mapping(found.Index[1], i)))

\* The source field of a tagged field looked up as one that is not required
\* (line 409).
fieldMappingOptional(lastType, rtype, i, mappings, dstField) ==
    IF dstField.hasTag /\ dstField.tag = ""
    THEN versionMappings(lastType, rtype, i + 1, mappings)
    ELSE IF dstField.hasTag
    THEN matchField(lastType, rtype, i, mappings, [dstField EXCEPT !.hasTag = FALSE],
                    dstField.tag, FieldByName(lastType, dstField.tag))
    ELSE matchField(lastType, rtype, i, mappings, dstField, dstField.name,
                    FieldByName(lastType, dstField.name))

\* Lines 401-411: the name of the source field of field i of rtype.
fieldMapping(lastType, rtype, i, mappings, dstField) ==
    IF dstField.hasTag /\ dstField.tag = ""
    THEN versionMappings(lastType, rtype, i + 1, mappings)
    ELSE IF dstField.hasTag
    THEN matchField(lastType, rtype, i, mappings, dstField, dstField.tag,
                    FieldByName(lastType, dstField.tag))
    ELSE matchField(lastType, rtype, i, mappings, dstField, dstField.name,
                    FieldByName(lastType, dstField.name))

\* The field loop reading an empty vjson tag as no tag (lines 405-407).
versionMappingsOfEmptyTags(lastType, rtype, i, mappings) ==
    IF i >= NumField(rtype) THEN [err |-> NoErr, mappings |-> sortBySrc(mappings)]
    ELSE fieldMapping(lastType, rtype, i, mappings,
                      IF Fields(rtype)[i + 1].tag = ""
                      THEN [Fields(rtype)[i + 1] EXCEPT !.hasTag = FALSE]
                      ELSE Fields(rtype)[i + 1])

versionMappings(lastType, rtype, i, mappings) ==
    IF i >= NumField(rtype) THEN [err |-> NoErr, mappings |-> sortBySrc(mappings)]
    ELSE fieldMapping(lastType, rtype, i, mappings, Fields(rtype)[i + 1])

\* The upgrade method must have a pointer receiver.
upgradeFuncOf(rtype) == IF "Upgrade" \in Methods(rtype) THEN Func(rtype, "Upgrade") ELSE NoFunc

\* The loop over the version prototypes (lines 384-451), from index on.
RECURSIVE registerVersions(_, _, _, _, _)

\* The version registered without the check of its Unpack method (lines
\* 444-446).
registerVersionUnpacking(versionPrototypes, index, lastType, seenTypes, versions, rtype, m) ==
    IF m.err # NoErr THEN [err |-> m.err, versions |-> versions, lastType |-> lastType]
    ELSE IF index + 1 < Len(versionPrototypes) /\ "Pack" \in Methods(rtype)
    THEN [err |-> Errorf("detected Pack method on %v, which is not the latest version",
                         << rtype >>),
          versions |-> versions, lastType |-> lastType]
    ELSE registerVersions(versionPrototypes, index + 1, rtype, seenTypes \cup { rtype },
                          Append(versions, [rtype |-> rtype, mappings |-> m.mappings,
                                            upgradeFunc |-> upgradeFuncOf(rtype)]))

\* Lines 386-450: the version index + 1, of type rtype, with the mappings m.
registerVersion(versionPrototypes, index, lastType, seenTypes, versions, rtype, m) ==
    IF m.err # NoErr THEN [err |-> m.err, versions |-> versions, lastType |-> lastType]
    ELSE IF index + 1 < Len(versionPrototypes) /\ "Pack" \in Methods(rtype)
    THEN [err |-> Errorf("detected Pack method on %v, which is not the latest version",
                         << rtype >>),
          versions |-> versions, lastType |-> lastType]
    ELSE IF index + 1 < Len(versionPrototypes) /\ "Unpack" \in Methods(rtype)
    THEN [err |-> Errorf("detected Unpack method on %v, which is not the latest version",
                         << rtype >>),
          versions |-> versions, lastType |-> lastType]
    ELSE registerVersions(versionPrototypes, index + 1, rtype, seenTypes \cup { rtype },
                          Append(versions, [rtype |-> rtype, mappings |-> m.mappings,
                                            upgradeFunc |-> upgradeFuncOf(rtype)]))

\* The loop without its check of the types seen (lines 393-395).
registerVersionsUnseen(versionPrototypes, index, lastType, seenTypes, versions) ==
    IF index >= Len(versionPrototypes)
    THEN [err |-> NoErr, versions |-> versions, lastType |-> lastType]
    ELSE IF Kind(versionPrototypes[index + 1]) # "struct"
    THEN [err |-> Errorf("only structs are allowed, but found %v for version %d",
                         << versionPrototypes[index + 1], Dec(index + 1) >>),
          versions |-> versions, lastType |-> lastType]
    ELSE registerVersion(versionPrototypes, index, lastType, seenTypes, versions,
                         versionPrototypes[index + 1],
                         IF lastType # NilType
                         THEN versionMappings(lastType, versionPrototypes[index + 1], 0, << >>)
                         ELSE [err |-> NoErr, mappings |-> << >>])

\* The loop without its check of a version prototype's kind (lines 389-391).
registerVersionsOfAnyKind(versionPrototypes, index, lastType, seenTypes, versions) ==
    IF index >= Len(versionPrototypes)
    THEN [err |-> NoErr, versions |-> versions, lastType |-> lastType]
    ELSE IF versionPrototypes[index + 1] \in seenTypes
    THEN [err |-> Errorf("struct %v for version %d was already passed earlier in the same call to register",
                         << versionPrototypes[index + 1], Dec(index + 1) >>),
          versions |-> versions, lastType |-> lastType]
    ELSE registerVersion(versionPrototypes, index, lastType, seenTypes, versions,
                         versionPrototypes[index + 1],
                         IF lastType # NilType
                         THEN versionMappings(lastType, versionPrototypes[index + 1], 0, << >>)
                         ELSE [err |-> NoErr, mappings |-> << >>])

registerVersions(versionPrototypes, index, lastType, seenTypes, versions) ==
    IF index >= Len(versionPrototypes)
    THEN [err |-> NoErr, versions |-> versions, lastType |-> lastType]
    ELSE IF Kind(versionPrototypes[index + 1]) # "struct"
    THEN [err |-> Errorf("only structs are allowed, but found %v for version %d",
                         << versionPrototypes[index + 1], Dec(index + 1) >>),
          versions |-> versions, lastType |-> lastType]
    ELSE IF versionPrototypes[index + 1] \in seenTypes
    THEN [err |-> Errorf("struct %v for version %d was already passed earlier in the same call to register",
                         << versionPrototypes[index + 1], Dec(index + 1) >>),
          versions |-> versions, lastType |-> lastType]
    ELSE registerVersion(versionPrototypes, index, lastType, seenTypes, versions,
                         versionPrototypes[index + 1],
                         IF lastType # NilType
                         THEN versionMappings(lastType, versionPrototypes[index + 1], 0, << >>)
                         ELSE [err |-> NoErr, mappings |-> << >>])

\* The field loops between the live type and the latest version (lines
\* 469-480 when packing, 486-497 otherwise): every field of srcType that
\* dstType has by name.
RECURSIVE liveMappings(_, _, _, _, _)

\* The field loop passing over a source field that carries a vjson tag.
liveMappingUnlessTagged(srcType, dstType, packing, i, mappings, srcField, dstField) ==
    IF ~dstField.ok \/ srcField.hasTag
    THEN liveMappings(srcType, dstType, packing, i + 1, mappings)
    ELSE IF srcField.type # dstField.Type
    THEN [err |-> Errorf("field %s has different types in %v (%v) and %v (%v)",
                         IF packing
                         THEN << srcField.name, srcType, srcField.type, dstType, dstField.Type >>
                         ELSE << srcField.name, dstType, dstField.Type, srcType, srcField.type >>),
          mappings |-> mappings]
    ELSE liveMappings(srcType, dstType, packing, i + 1,
                      Append(mappings, mapping(i, dstField.Index[1])))

liveMapping(srcType, dstType, packing, i, mappings, srcField, dstField) ==
    IF ~dstField.ok THEN liveMappings(srcType, dstType, packing, i + 1, mappings)
    ELSE IF srcField.type # dstField.Type
    THEN [err |-> Errorf("field %s has different types in %v (%v) and %v (%v)",
                         IF packing
                         THEN << srcField.name, srcType, srcField.type, dstType, dstField.Type >>
                         ELSE << srcField.name, dstType, dstField.Type, srcType, srcField.type >>),
          mappings |-> mappings]
    ELSE liveMappings(srcType, dstType, packing, i + 1,
                      Append(mappings, mapping(i, dstField.Index[1])))

liveMappings(srcType, dstType, packing, i, mappings) ==
    IF i >= NumField(srcType) THEN [err |-> NoErr, mappings |-> mappings]
    ELSE liveMapping(srcType, dstType, packing, i, mappings, Fields(srcType)[i + 1],
                     FieldByName(dstType, Fields(srcType)[i + 1].name))

\* The Version field of the latest version (lines 454-464).
versionFieldAt(lastType, field) ==
    IF ~field.ok THEN [err |-> NoErr, versionField |-> -1]
    ELSE IF Len(field.Index) # 1
    THEN [err |-> Errorf("Version field in %v must be a top-level field, but is in an embedded struct",
                         << lastType >>),
          versionField |-> -1]
    ELSE IF Kind(field.Type) # "int"
    THEN [err |-> Errorf("Version field in %v must have type int but is %v",
                         << lastType, field.Type >>),
          versionField |-> -1]
    ELSE [err |-> NoErr, versionField |-> field.Index[1]]

versionFieldOf(lastType) == versionFieldAt(lastType, FieldByName(lastType, "Version"))

\* An entry of the registry.  versions[i] is the context of version i.
NoEntry ==
    [latestVersion |-> 0, versions |-> << >>,
     marshal |-> [rtype |-> NilType, packFunc |-> NoFunc, mappings |-> << >>, versionField |-> -1],
     unmarshal |-> [unpackFunc |-> NoFunc, mappings |-> << >>]]

Rejected(e) == [err |-> e, entry |-> NoEntry]

\* Lines 483-498: the unmarshal context, which completes the entry.
registerUnmarshal(entry, lastType, um) ==
    IF um.err # NoErr THEN Rejected(um.err)
    ELSE [err |-> NoErr,
          entry |-> [entry EXCEPT !.unmarshal =
                        [unpackFunc |-> IF "Unpack" \in Methods(lastType)
                                        THEN Func(lastType, "Unpack") ELSE NoFunc,
                         mappings |-> um.mappings]]]

\* Lines 466-481: the marshal context.
registerMarshal(entryType, entry, lastType, mm) ==
    IF mm.err # NoErr THEN Rejected(mm.err)
    ELSE registerUnmarshal(
             [entry EXCEPT !.marshal.packFunc = IF "Pack" \in Methods(lastType)
                                                THEN Func(lastType, "Pack") ELSE NoFunc,
                           !.marshal.mappings = mm.mappings],
             lastType,
             IF "Unpack" \in Methods(lastType) THEN [err |-> NoErr, mappings |-> << >>]
             ELSE liveMappings(lastType, entryType, FALSE, 0, << >>))

\* The marshal context with the mappings into the latest version computed
\* as those between two versions are, by the vjson tags of the latest version.
registerVersionFieldByTags(entryType, entry, lastType, vf) ==
    IF vf.err # NoErr THEN Rejected(vf.err)
    ELSE registerMarshal(
             entryType,
             [entry EXCEPT !.marshal.rtype = lastType, !.marshal.versionField = vf.versionField],
             lastType,
             IF "Pack" \in Methods(lastType) THEN [err |-> NoErr, mappings |-> << >>]
             ELSE versionMappings(entryType, lastType, 0, << >>))

\* The marshal context with the field loop of lines 469-480 run whether or
\* not the latest version declares Pack.
registerVersionFieldMapped(entryType, entry, lastType, vf) ==
    IF vf.err # NoErr THEN Rejected(vf.err)
    ELSE registerMarshal(
             entryType,
             [entry EXCEPT !.marshal.rtype = lastType, !.marshal.versionField = vf.versionField],
             lastType,
             liveMappings(entryType, lastType, TRUE, 0, << >>))

\* Lines 453-464: the latest version's type and its Version field.
registerVersionField(entryType, entry, lastType, vf) ==
    IF vf.err # NoErr THEN Rejected(vf.err)
    ELSE registerMarshal(
             entryType,
             [entry EXCEPT !.marshal.rtype = lastType, !.marshal.versionField = vf.versionField],
             lastType,
             IF "Pack" \in Methods(lastType) THEN [err |-> NoErr, mappings |-> << >>]
             ELSE liveMappings(entryType, lastType, TRUE, 0, << >>))

\* The entry with the index of the last prototype as its latest version
\* (len(versionPrototypes) - 1 at line 378).
registerLatestByIndex(entryType, latestVersion, vs) ==
    IF vs.err # NoErr THEN Rejected(vs.err)
    ELSE registerVersionField(
             entryType,
             [NoEntry EXCEPT !.latestVersion = latestVersion - 1, !.versions = vs.versions],
             vs.lastType, versionFieldOf(vs.lastType))

\* Lines 377-451: the entry with its versions.
registerLatest(entryType, latestVersion, vs) ==
    IF vs.err # NoErr THEN Rejected(vs.err)
    ELSE registerVersionField(
             entryType,
             [NoEntry EXCEPT !.latestVersion = latestVersion, !.versions = vs.versions],
             vs.lastType, versionFieldOf(vs.lastType))

\* registerError without its check of the registry (lines 365-367).
registerEntryAgain(entryByType, entryType, versionPrototypes) ==
    IF Kind(entryType) # "struct"
    THEN Rejected(Errorf("only structs are allowed, but found %v", << entryType >>))
    ELSE IF Len(versionPrototypes) = 0
    THEN Rejected(Errorf("must provide at least one version prototype", << >>))
    ELSE IF FieldByName(entryType, "Version").ok
    THEN Rejected(Errorf("type %v must not contain a field named Version, as it is reserved for vjson",
                         << entryType >>))
    ELSE registerLatest(entryType, Len(versionPrototypes),
                        registerVersions(versionPrototypes, 0, NilType, { entryType }, << >>))

\* Lines 359-498 of registerError: the error, or the entry built.
registerEntry(entryByType, entryType, versionPrototypes) ==
    IF Kind(entryType) # "struct"
    THEN Rejected(Errorf("only structs are allowed, but found %v", << entryType >>))
    ELSE IF entryType \in DOMAIN entryByType
    THEN Rejected(Errorf("type %v already registered", << entryType >>))
    ELSE IF Len(versionPrototypes) = 0
    THEN Rejected(Errorf("must provide at least one version prototype", << >>))
    ELSE IF FieldByName(entryType, "Version").ok
    THEN Rejected(Errorf("type %v must not contain a field named Version, as it is reserved for vjson",
                         << entryType >>))
    ELSE registerLatest(entryType, Len(versionPrototypes),
                        registerVersions(versionPrototypes, 0, NilType, { entryType }, << >>))

\* Line 500: entryByType[entryType] = entry.
storeEntry(entryByType, entryType, entry) ==
    [ T \in DOMAIN entryByType \cup { entryType } |->
        IF T = entryType THEN entry ELSE entryByType[T] ]

\* registerError storing the entry before its checks are done.
registerResultEager(entryByType, prototype, r) ==
    [err |-> r.err, entryByType |-> storeEntry(entryByType, prototype, r.entry)]

\* Lines 500-501, reached when nothing has returned an error before.
registerResult(entryByType, prototype, r) ==
    [err |-> r.err,
     entryByType |-> IF r.err # NoErr THEN entryByType
                     ELSE storeEntry(entryByType, prototype, r.entry)]

\* registerError(prototype, versionPrototypes...): the error returned and the
\* registry afterwards.
registerError(entryByType, prototype, versionPrototypes) ==
    registerResult(entryByType, prototype,
                   registerEntry(entryByType, prototype, versionPrototypes))

(***************************************************************************)
(* The hooks of the version structs.  Each takes the values behind its    *)
(* two pointers and gives them back, with the values it returns.          *)
(***************************************************************************)
\* fmt.Sprintf("%04x", n)
RECURSIVE PadLeft(_, _)
PadLeft(str, width) == IF Len(str) >= width THEN str ELSE PadLeft("0" \o str, width)
Hex4(n) == PadLeft(Hex(n), 4)

\* fmt.Sscanf(str, "%x", &n) on a complete lower-case hexadecimal numeral, or
\* on a text that starts with no hexadecimal digit (an error).
Scanned(ns) ==
    IF ns = {} THEN [n |-> 0, err |-> Errorf("expected integer", << >>)]
    ELSE [n |-> CHOOSE n \in ns : TRUE, err |-> NoErr]

ScanHex(str) == Scanned({ n \in 0..MaxScan : Hex(n) = str })

\* UserV3.Upgrade with "%x" for "%04x": the ID loses its leading zeros.
UserV3_UpgradeUnpadded(v3, v2) ==
    [params |-> << [v3 EXCEPT ![1] = StrV(Hex(v2[1].v))], v2 >>, returnValues |-> << >>]

\* func (v3 *UserV3) Upgrade(v2 *UserV2) { v3.ID = fmt.Sprintf("%04x", v2.ID) }
UserV3_Upgrade(v3, v2) ==
    [params |-> << [v3 EXCEPT ![1] = StrV(Hex4(v2[1].v))], v2 >>, returnValues |-> << >>]

\* func (v2 *UpgradeV2) Upgrade(v1 *UpgradeV1) { v2.BA = "b" + v1.A }
UpgradeV2_Upgrade(v2, v1) ==
    [params |-> << [v2 EXCEPT ![1] = StrV("b" \o v1[1].v)], v1 >>, returnValues |-> << >>]

\* func (v2 *UpgradeErrorV2) Upgrade(v1 *UpgradeErrorV1) error {
\*     return fmt.Errorf("upgrade error") }
UpgradeErrorV2_Upgrade(v2, v1) ==
    [params |-> << v2, v1 >>, returnValues |-> << Errorf("upgrade error", << >>) >>]

\* func (v2 *CheckedV2) Upgrade(v1 *CheckedV1) error: fails on an empty
\* v1.A, else sets v2.BA = "b" + v2.A (the copied field) and returns nil.
CheckedV2_Upgrade(v2, v1) ==
    IF v1[1].v = ""
    THEN [params |-> << v2, v1 >>, returnValues |-> << Errorf("upgrade error", << >>) >>]
    ELSE [params |-> << [v2 EXCEPT ![2] = StrV("b" \o v2[1].v)], v1 >>,
          returnValues |-> << NoErr >>]

\* func (v3 *CheckedV3) Upgrade(v2 *CheckedV2) { v3.A = "x" + v3.BA }
CheckedV3_Upgrade(v3, v2) ==
    [params |-> << [v3 EXCEPT ![1] = StrV("x" \o v3[2].v)], v2 >>, returnValues |-> << >>]

\* func (v3 *ClearedV3) Upgrade(v2 *CheckedV2) { v3.BA = v3.A + v3.BA }
ClearedV3_Upgrade(v3, v2) ==
    [params |-> << [v3 EXCEPT ![2] = StrV(v3[1].v \o v3[2].v)], v2 >>, returnValues |-> << >>]

\* func (latest *ExampleV1) Pack(example *Example) { latest.Value = fmt.Sprintf("%x", example.Value) }
ExampleV1_Pack(latest, example) ==
    [params |-> << [latest EXCEPT ![1] = StrV(Hex(example[1].v))], example >>,
     returnValues |-> << >>]

\* func (latest *ExampleV1) Unpack(example *Example) error {
\*     _, err := fmt.Sscanf(latest.Value, "%x", &example.Value); return err }
ScanInto(latest, example, scan) ==
    [params |-> << latest, IF scan.err = NoErr THEN [example EXCEPT ![1] = IntV(scan.n)]
                           ELSE example >>,
     returnValues |-> << scan.err >>]

ExampleV1_Unpack(latest, example) == ScanInto(latest, example, ScanHex(latest[1].v))

\* func (latest *ExampleOptV1) Pack(example *Example): as ExampleV1.Pack, and
\* it writes latest.Version = 99 too.
ExampleOptV1_Pack(latest, example) ==
    [params |-> << [latest EXCEPT ![1] = StrV(Hex(example[1].v)), ![2] = IntV(99)], example >>,
     returnValues |-> << >>]

\* func (latest *SimplePackV1) Pack(value *Simple) { latest.Number = value.Number + 1 }
SimplePackV1_Pack(latest, value) ==
    [params |-> << [latest EXCEPT ![2] = IntV(value[2].v + 1)], value >>,
     returnValues |-> << >>]

\* func (latest *SimpleUnpackV1) Unpack(value *Simple) error {
\*     value.Number = latest.Number + 1
\*     if latest.Text == "" { return testError }
\*     return nil
\* }
SimpleUnpackV1_Unpack(latest, value) ==
    [params |-> << latest, [value EXCEPT ![2] = IntV(latest[2].v + 1)] >>,
     returnValues |-> << IF latest[1].v = "" THEN Errorf("test error", << >>) ELSE NoErr >>]

\* func (latest *RawErrorV1) Pack(value *RawError) error { return testError }
\* func (latest *RawErrorV1) Unpack(value *RawError) error { return testError }
testError == Errorf("test error", << >>)
RawErrorV1_Hook(latest, value) ==
    [params |-> << latest, value >>, returnValues |-> << testError >>]

\* f.Call(params)
Call(f, params) ==
    CASE f = Func("UserV3", "Upgrade") -> UserV3_Upgrade(params[1], params[2])
      [] f = Func("UpgradeV2", "Upgrade") -> UpgradeV2_Upgrade(params[1], params[2])
      [] f = Func("UpgradeErrorV2", "Upgrade") -> UpgradeErrorV2_Upgrade(params[1], params[2])
      [] f = Func("CheckedV2", "Upgrade") -> CheckedV2_Upgrade(params[1], params[2])
      [] f = Func("CheckedV3", "Upgrade") -> CheckedV3_Upgrade(params[1], params[2])
      [] f = Func("ClearedV3", "Upgrade") -> ClearedV3_Upgrade(params[1], params[2])
      [] f = Func("ExampleV1", "Pack") -> ExampleV1_Pack(params[1], params[2])
      [] f = Func("ExampleV1", "Unpack") -> ExampleV1_Unpack(params[1], params[2])
      [] f = Func("ExampleOptV1", "Pack") -> ExampleOptV1_Pack(params[1], params[2])
      [] f = Func("ExampleOptV1", "Unpack") -> ExampleV1_Unpack(params[1], params[2])
      [] f = Func("SimplePackV1", "Pack") -> SimplePackV1_Pack(params[1], params[2])
      [] f = Func("SimpleUnpackV1", "Unpack") -> SimpleUnpackV1_Unpack(params[1], params[2])
      [] f = Func("RawErrorV1", "Pack") -> RawErrorV1_Hook(params[1], params[2])
      [] f = Func("RawErrorV1", "Unpack") -> RawErrorV1_Hook(params[1], params[2])

\* Lines 649-657: the error is the last return value, nil when there is none.
errorValue(returnValues) ==
    IF Len(returnValues) = 0 THEN NoErr ELSE returnValues[Len(returnValues)]

\* callErrorFunction wrapping the hook's error in one of its own.
Wrapped(r) ==
    [params |-> r.params,
     err |-> IF errorValue(r.returnValues) = NoErr THEN NoErr
             ELSE Errorf("vjson: hook failed: %v", << errorValue(r.returnValues).text >>)]

Called(r) == [params |-> r.params, err |-> errorValue(r.returnValues)]

\* callErrorFunction(f, params...): params are the values behind the pointers
\* afterwards.
callErrorFunction(f, params) == Called(Call(f, params))

\* dst.Field(mapping.dst).Set(src.Field(mapping.src)): reflect's Set panics
\* when the two fields differ in type.
Assignable(src, dst, m) ==
    /\ m.src + 1 <= Len(src)
    /\ m.dst + 1 <= Len(dst)
    /\ src[m.src + 1].t = dst[m.dst + 1].t

\* copyFields(src, dst, mappings)
RECURSIVE copyFields(_, _, _)
copyFields(src, dst, mappings) ==
    IF mappings = << >> THEN [val |-> dst, panic |-> FALSE]
    ELSE IF ~Assignable(src, dst, Head(mappings)) THEN [val |-> dst, panic |-> TRUE]
    ELSE copyFields(src, [dst EXCEPT ![Head(mappings).dst + 1] = src[Head(mappings).src + 1]],
                    Tail(mappings))

\* unmarshalVersion without the check of line 670: a negative version is
\* read as an omitted one.
containerVersionUnchecked(container) ==
    IF container.err # NoErr THEN [version |-> 0, err |-> container.err]
    ELSE IF container.val[1].v <= 0 THEN [version |-> 1, err |-> NoErr]
    ELSE [version |-> container.val[1].v, err |-> NoErr]

\* Lines 667-677 of unmarshalVersion: the version of the container read.
containerVersion(container) ==
    IF container.err # NoErr THEN [version |-> 0, err |-> container.err]
    ELSE IF container.val[1].v < 0
    THEN [version |-> 0,
          err |-> Errorf("vjson: cannot unmarshal object: negative version number", << >>)]
    ELSE IF container.val[1].v = 0
    \* If the version field is omitted, version 1 is implied.
    THEN [version |-> 1, err |-> NoErr]
    ELSE [version |-> container.val[1].v, err |-> NoErr]

\* unmarshalVersion(data)
unmarshalVersion(data) ==
    containerVersion(jsonUnmarshal(data, "versionContainer", Zero("versionContainer")))

(***************************************************************************)
(* Marshal(v).  v is what the caller passes: a struct ("struct"), a        *)
(* pointer to one ("ptr"), a nil pointer ("nilptr") or nil ("nil").  The   *)
(* log records what the call did, in order.                                *)
(***************************************************************************)
Ev(op, version) == [op |-> op, version |-> version]
NilBytes == << >>

marshalReturn(data, e, log) == [data |-> data, err |-> e, panic |-> FALSE, log |-> log]
marshalPanic(log) == [data |-> NilBytes, err |-> NoErr, panic |-> TRUE, log |-> log]

\* Lines 550-551: the Version field is set and the value encoded.
marshalField(encoded, log) ==
    marshalReturn(IF encoded.err # NoErr THEN NilBytes ELSE encoded.data, encoded.err, log)

\* The splice of lines 564-567 without the case of the empty object of
\* lines 559-562.
marshalSpliceAlways(latestVersion, encoded, log) ==
    IF encoded.err # NoErr THEN marshalReturn(NilBytes, encoded.err, log)
    ELSE marshalReturn(<< LBrace, KV("Version", IntV(latestVersion)), Comma >>
                           \o Tail(encoded.data),
                       NoErr, Append(log, Ev("splice", latestVersion)))

\* Lines 554-567: the value is encoded and the version spliced in.
marshalSplice(latestVersion, encoded, log) ==
    IF encoded.err # NoErr THEN marshalReturn(NilBytes, encoded.err, log)
    ELSE IF encoded.data = EmptyObject
    THEN marshalReturn(<< LBrace, KV("Version", IntV(latestVersion)), RBrace >>, NoErr, log)
    ELSE marshalReturn(<< LBrace, KV("Version", IntV(latestVersion)), Comma >>
                           \o Tail(encoded.data),
                       NoErr, Append(log, Ev("splice", latestVersion)))

\* Lines 549-567: value is the latest version's struct, filled.
marshalEncode(entry, value, log) ==
    IF entry.marshal.versionField >= 0
    THEN marshalField(jsonMarshal(entry.marshal.rtype,
                                  [value EXCEPT ![entry.marshal.versionField + 1] =
                                                    IntV(entry.latestVersion)]),
                      log \o << Ev("setVersion", entry.latestVersion),
                                Ev("json.Marshal", entry.latestVersion) >>)
    ELSE marshalSplice(entry.latestVersion, jsonMarshal(entry.marshal.rtype, value),
                       Append(log, Ev("json.Marshal", entry.latestVersion)))

\* Lines 541-544: the Pack hook has run.
marshalPacked(entry, packed, log) ==
    IF packed.err # NoErr THEN marshalReturn(NilBytes, packed.err, log)
    ELSE marshalEncode(entry, packed.params[1], log)

\* Line 546: the fields have been copied.
marshalCopied(entry, copied, log) ==
    IF copied.panic THEN marshalPanic(log) ELSE marshalEncode(entry, copied.val, log)

\* Lines 520-567.
marshalEntry(entry, val) ==
    IF IsValid(entry.marshal.packFunc)
    THEN marshalPacked(entry,
                       callErrorFunction(entry.marshal.packFunc,
                                         << Zero(entry.marshal.rtype), val >>),
                       << Ev("Pack", entry.latestVersion) >>)
    ELSE marshalCopied(entry,
                       copyFields(val, Zero(entry.marshal.rtype), entry.marshal.mappings),
                       << Ev("copyFields", entry.latestVersion) >>)

Marshal(registry, v) ==
    \* input.Type() of the zero reflect.Value panics.
    IF v.kind \in { "nil", "nilptr" } THEN marshalPanic(<< >>)
    ELSE IF v.type \notin DOMAIN registry
    THEN marshalReturn(NilBytes, Errorf("vjson: type not registered: %v", << v.type >>), << >>)
    ELSE marshalEntry(registry[v.type], v.val)

(***************************************************************************)
(* Unmarshal(data, v).  A call is a record: what was passed, where the     *)
(* call is (pc), its local variables and what it has done so far (log).    *)
(* v is a pointer to a struct ("ptr"), a nil pointer ("nilptr"), a value   *)
(* that is no pointer ("nonptr") or nil ("nil").                           *)
(***************************************************************************)
NoArg == [kind |-> "nil", type |-> NilType, val |-> << >>]

Idle ==
    [op |-> "none", pc |-> "idle",
     v |-> NoArg,                   \* the value or target passed
     versionPrototypes |-> << >>,   \* Register: the version prototypes
     data |-> NilBytes,             \* Unmarshal: the bytes read; Marshal: the bytes returned
     before |-> << >>,              \* Unmarshal: the live value when the call was made
     live |-> << >>,                \* Unmarshal: the live value behind the pointer
     entry |-> NoEntry, version |-> 0, detected |-> 0,
     currentType |-> NilType, current |-> << >>,
     roundTrip |-> 0,               \* Marshal of an Unmarshal's result: the version it read
     input |-> NilBytes,            \* ... and the bytes it read
     err |-> NoErr, panic |-> FALSE, log |-> << >>]

\* return e
Return(c, e) == [c EXCEPT !.pc = "done", !.err = e]

\* Unmarshal with the null shortcut of lines 595-597 taken before the
\* registry is read.
resolveAfterNull(c, registry) ==
    IF c.v.kind = "nil" THEN Return(c, Errorf("vjson: Unmarshal(nil)", << >>))
    ELSE IF c.v.kind = "nonptr"
    THEN Return(c, Errorf("vjson: Unmarshal(non-pointer %v)", << c.v.type >>))
    ELSE IF c.v.kind = "nilptr"
    THEN Return(c, Errorf("vjson: Unmarshal(nil %v)", << "*" \o c.v.type >>))
    ELSE IF c.data = NullBytes THEN Return(c, NoErr)
    ELSE IF c.v.type \notin DOMAIN registry
    THEN Return(c, Errorf("vjson: type not registered: %v", << c.v.type >>))
    ELSE [c EXCEPT !.pc = "detect", !.entry = registry[c.v.type]]

\* Unmarshal reading the version (lines 595-602) before it reads the
\* registry (lines 590-593).
resolveAfterDetect(c, registry) ==
    IF c.v.kind = "nil" THEN Return(c, Errorf("vjson: Unmarshal(nil)", << >>))
    ELSE IF c.v.kind = "nonptr"
    THEN Return(c, Errorf("vjson: Unmarshal(non-pointer %v)", << c.v.type >>))
    ELSE IF c.v.kind = "nilptr"
    THEN Return(c, Errorf("vjson: Unmarshal(nil %v)", << "*" \o c.v.type >>))
    ELSE IF c.data # NullBytes /\ unmarshalVersion(c.data).err # NoErr
    THEN Return(c, unmarshalVersion(c.data).err)
    ELSE IF c.v.type \notin DOMAIN registry
    THEN Return(c, Errorf("vjson: type not registered: %v", << c.v.type >>))
    ELSE [c EXCEPT !.pc = "detect", !.entry = registry[c.v.type]]

\* Lines 576-593: the target must be a non-nil pointer, and its type registered.
resolve(c, registry) ==
    IF c.v.kind = "nil" THEN Return(c, Errorf("vjson: Unmarshal(nil)", << >>))
    ELSE IF c.v.kind = "nonptr"
    THEN Return(c, Errorf("vjson: Unmarshal(non-pointer %v)", << c.v.type >>))
    ELSE IF c.v.kind = "nilptr"
    THEN Return(c, Errorf("vjson: Unmarshal(nil %v)", << "*" \o c.v.type >>))
    ELSE IF c.v.type \notin DOMAIN registry
    THEN Return(c, Errorf("vjson: type not registered: %v", << c.v.type >>))
    ELSE [c EXCEPT !.pc = "detect", !.entry = registry[c.v.type]]

\* Lines 599-602: the version read.
detected(c, r) ==
    IF r.err # NoErr
    THEN [Return(c, r.err) EXCEPT !.log = Append(c.log, Ev("unmarshalVersion", 0))]
    ELSE [c EXCEPT !.pc = "decode", !.version = r.version, !.detected = r.version,
                   !.log = Append(c.log, Ev("unmarshalVersion", 0))]

\* Unmarshal without the null shortcut of lines 595-597.
detectNull(c) == detected(c, unmarshalVersion(c.data))

\* Lines 595-602: the null shortcut and the version.
detect(c) ==
    IF c.data = NullBytes THEN Return(c, NoErr)
    ELSE detected(c, unmarshalVersion(c.data))

\* Unmarshal setting the live value to zero when it decodes (before line 609).
decodedCleared(c, rtype, r) ==
    IF r.err # NoErr
    THEN [Return(c, r.err) EXCEPT !.log = Append(c.log, Ev("json.Unmarshal", c.version)),
                                  !.live = Zero(c.v.type)]
    ELSE [c EXCEPT !.pc = "upgrade", !.currentType = rtype, !.current = r.val,
                   !.log = Append(c.log, Ev("json.Unmarshal", c.version)),
                   !.live = Zero(c.v.type)]

\* Lines 609-613: the bytes decoded into a new struct of the version.
decoded(c, rtype, r) ==
    IF r.err # NoErr
    THEN [Return(c, r.err) EXCEPT !.log = Append(c.log, Ev("json.Unmarshal", c.version))]
    ELSE [c EXCEPT !.pc = "upgrade", !.currentType = rtype, !.current = r.val,
                   !.log = Append(c.log, Ev("json.Unmarshal", c.version))]

decodeInto(c, rtype) == decoded(c, rtype, jsonUnmarshal(c.data, rtype, Zero(rtype)))

\* Lines 604-613: the version's context, and the bytes decoded.
decode(c) ==
    IF c.version \notin DOMAIN c.entry.versions
    THEN Return(c, Errorf("vjson: unsupported version for %v: %d",
                          << c.v.type, Dec(c.version) >>))
    ELSE decodeInto(c, c.entry.versions[c.version].rtype)

\* Lines 620-627: the Upgrade hook has run.
upgraded(c, version, rtype, called, log) ==
    IF called.err # NoErr
    THEN [Return(c, called.err) EXCEPT !.version = version, !.log = log]
    ELSE [c EXCEPT !.version = version, !.currentType = rtype,
                   !.current = called.params[1], !.log = log]

\* The Upgrade hook run on the new struct before the fields are copied into it.
hookBeforeCopy(c, version, nextContext, next, log) ==
    IF next.panic
    THEN [c EXCEPT !.pc = "done", !.panic = TRUE, !.version = version, !.log = log]
    ELSE IF IsValid(nextContext.upgradeFunc)
    THEN upgraded(c, version, nextContext.rtype,
                  [params |-> << copyFields(c.current,
                                            callErrorFunction(nextContext.upgradeFunc,
                                                              << Zero(nextContext.rtype),
                                                                 c.current >>).params[1],
                                            nextContext.mappings).val,
                                 c.current >>,
                   err |-> callErrorFunction(nextContext.upgradeFunc,
                                             << Zero(nextContext.rtype), c.current >>).err],
                  Append(log, Ev("Upgrade", version)))
    ELSE [c EXCEPT !.version = version, !.currentType = nextContext.rtype,
                   !.current = next.val, !.log = log]

\* Lines 619-627: the fields have been copied into the new struct.
copied(c, version, nextContext, next, log) ==
    IF next.panic
    THEN [c EXCEPT !.pc = "done", !.panic = TRUE, !.version = version, !.log = log]
    ELSE IF IsValid(nextContext.upgradeFunc)
    THEN upgraded(c, version, nextContext.rtype,
                  callErrorFunction(nextContext.upgradeFunc, << next.val, c.current >>),
                  Append(log, Ev("Upgrade", version)))
    ELSE [c EXCEPT !.version = version, !.currentType = nextContext.rtype,
                   !.current = next.val, !.log = log]

\* An iteration of the loop that fills a field without a mapping from the
\* field of its name and type in the struct decoded from the input.
Skipping(c, rtype, mappings, first, next) ==
    [ i \in 1..NumField(rtype) |->
        IF \E n \in 1..Len(mappings) : mappings[n].dst = i - 1 THEN next[i]
        ELSE IF /\ FieldByName(first, Fields(rtype)[i].name).ok
                /\ Len(FieldByName(first, Fields(rtype)[i].name).Index) = 1
                /\ FieldByName(first, Fields(rtype)[i].name).Type = Fields(rtype)[i].type
        THEN jsonUnmarshal(c.data, first, Zero(first))
                 .val[FieldByName(first, Fields(rtype)[i].name).Index[1] + 1]
        ELSE next[i] ]

upgradeToSkipping(c, version, nextContext) ==
    copied(c, version, nextContext,
           [val |-> Skipping(c, nextContext.rtype, nextContext.mappings,
                             c.entry.versions[c.detected].rtype,
                             copyFields(c.current, Zero(nextContext.rtype),
                                        nextContext.mappings).val),
            panic |-> FALSE],
           c.log \o << Ev("New", version), Ev("copyFields", version) >>)

\* The loop going to the latest version in one step.
upgradeToLatest(c, version, nextContext) ==
    copied(c, c.entry.latestVersion, c.entry.versions[c.entry.latestVersion],
           copyFields(c.current, Zero(c.entry.versions[c.entry.latestVersion].rtype),
                      c.entry.versions[c.entry.latestVersion].mappings),
           c.log \o << Ev("New", c.entry.latestVersion),
                       Ev("copyFields", c.entry.latestVersion) >>)

upgradeTo(c, version, nextContext) ==
    copied(c, version, nextContext,
           copyFields(c.current, Zero(nextContext.rtype), nextContext.mappings),
           c.log \o << Ev("New", version), Ev("copyFields", version) >>)

\* Lines 616-627: one iteration of the upgrade loop.
upgrade(c) == upgradeTo(c, c.version + 1, c.entry.versions[c.version + 1])

\* Lines 631-634: the Unpack hook has run.
unpacked(c, called) ==
    [Return(c, called.err) EXCEPT !.live = called.params[2],
                                  !.log = Append(c.log, Ev("Unpack", c.version))]

\* Line 636: the fields have been copied to the live value.
copiedLive(c, r) ==
    [Return(c, NoErr) EXCEPT !.live = r.val, !.panic = r.panic,
                             !.log = Append(c.log, Ev("copyLive", c.version))]

\* The conversion copying into a zero value of the live type.
finalizeFresh(c) ==
    IF IsValid(c.entry.unmarshal.unpackFunc)
    THEN unpacked(c, callErrorFunction(c.entry.unmarshal.unpackFunc, << c.current, c.live >>))
    ELSE copiedLive(c, copyFields(c.current, Zero(c.v.type), c.entry.unmarshal.mappings))

\* Lines 630-638: the latest version's value goes to the live value.
finalize(c) ==
    IF IsValid(c.entry.unmarshal.unpackFunc)
    THEN unpacked(c, callErrorFunction(c.entry.unmarshal.unpackFunc, << c.current, c.live >>))
    ELSE copiedLive(c, copyFields(c.current, c.live, c.entry.unmarshal.mappings))

\* The step of the call at c.pc.
step(c, registry) ==
    IF c.pc = "resolve" THEN resolve(c, registry)
    ELSE IF c.pc = "detect" THEN detect(c)
    ELSE IF c.pc = "decode" THEN decode(c)
    ELSE IF c.version < c.entry.latestVersion THEN upgrade(c)
    ELSE finalize(c)

\* The call when Unmarshal is entered with data, the target v and the live
\* value behind it.
Entered(data, v, live) ==
    [Idle EXCEPT !.op = "Unmarshal", !.pc = "resolve", !.data = data, !.v = v,
                 !.before = live, !.live = live]

\* Unmarshal(data, v) from entry to return.
RECURSIVE Run(_, _)
Run(c, registry) == IF c.pc = "done" THEN c ELSE Run(step(c, registry), registry)

Unmarshal(registry, data, v, live) == Run(Entered(data, v, live), registry)

(***************************************************************************)
(* The inputs of the calls.                                                *)
(***************************************************************************)
\* The calls of Register the program makes: those of the package's tests and
\* examples, and calls that registerError has to reject.
Reg(prototype, versionPrototypes) ==
    [prototype |-> prototype, versionPrototypes |-> versionPrototypes]

RegisterCalls ==
    { Reg("User", << "UserV1", "UserV2", "UserV3" >>),
      Reg("User", << "UserV3" >>),
      Reg("User", << "UserV1" >>),
      Reg("User", << "UserV2", "UserV3" >>),
      Reg("Simple", << "SimpleV1" >>),
      Reg("Simple", << "SimpleV1", "SimpleOptV1" >>),
      Reg("Simple", << "SimpleOptV1" >>),
      Reg("Simple", << "SimplePackV1" >>),
      Reg("Simple", << "SimpleUnpackV1" >>),
      Reg("Simple", << >>),
      Reg("Simple", << "int" >>),
      Reg("Simple", << "SimpleV1", "SimpleV1" >>),
      Reg("Simple", << "Simple" >>),
      Reg("int", << "SimpleV1" >>),
      Reg("int", << >>),
      Reg("Simple", << "SimpleV1", "int" >>),
      Reg("Tagged", << "SimpleV1" >>),
      Reg("Upgrade", << "UpgradeV1", "UpgradeV2" >>),
      Reg("Upgrade", << "UpgradeV2" >>),
      Reg("UpgradeError", << "UpgradeErrorV1", "UpgradeErrorV2" >>),
      Reg("Checked", << "CheckedV1", "CheckedV2" >>),
      Reg("Checked", << "CheckedV1", "CheckedV2", "CheckedV3" >>),
      Reg("Checked", << "CheckedV1", "CheckedV2", "ClearedV3" >>),
      Reg("Example", << "ExampleV1" >>),
      Reg("Example", << "ExampleOptV1" >>),
      Reg("Example", << "ExampleV1", "ExampleOptV1" >>),
      Reg("RawError", << "RawErrorV1" >>),
      Reg("Legacy", << "LegacyV1", "LegacyV2" >>),
      Reg("Legacy", << "SimpleV1", "LegacyV2" >>),
      Reg("Empty", << "EmptyV1" >>),
      Reg("Renamed", << "RenamedV1", "RenamedV2" >>),
      Reg("EmbeddedParent", << "EmbeddedParentV1", "EmbeddedParentV2" >>),
      Reg("TypeMismatchA", << "TypeMismatchAV1" >>),
      Reg("TypeMismatchB", << "TypeMismatchBV1", "TypeMismatchBV2" >>),
      Reg("TypeMismatchC", << "TypeMismatchCV1", "TypeMismatchCV2" >>),
      Reg("Example", << "ExamplePackV1" >>),
      Reg("Example", << "ExampleUnpackV1" >>),
      Reg("Example", << "ExamplePackV1", "ExampleV1" >>),
      Reg("Example", << "ExampleUnpackV1", "ExampleV1" >>),
      Reg("Renaming", << "RenamingV1", "RenamingV2" >>),
      Reg("Renaming", << "SimpleV1", "RenamingV2" >>),
      Reg("Renaming", << "RenamingV1", "RenamingV2", "RenamingV3" >>),
      Reg("EmbeddedParent", << "EmbeddedParentV1", "EmbeddedFlatV2", "EmbeddedParentV2" >>),
      Reg("EmbeddedParent", << "EmbeddedParentV1", "EmbeddedTagV2" >>),
      Reg("EmbeddedParent", << "EmbeddedParentV1", "EmbeddedFlatV2" >>),
      Reg("Multiple", << "MultipleV1", "MultipleV2", "MultipleV3" >>),
      Reg("Multiple", << "MultipleV2", "MultipleV1", "MultipleV3" >>),
      Reg("Multiple", << "MultipleV1", "MultipleV2" >>) }

\* The types of the values passed to Marshal and Unmarshal: the registered
\* types, and three that may have no entry (a struct that can be registered,
\* one that cannot, and a type that is no struct).
CallTypes == { c.prototype : c \in RegisterCalls }
Strangers == { "Simple", "Tagged", "int" }

\* The values a caller holds of a type: the zero value and one with every
\* field set.
RECURSIVE Sample(_)
Sample(T) ==
    LET fs == Fields(T)
    IN  [ i \in 1..Len(fs) |->
            IF fs[i].type = "int" THEN IntV(42)
            ELSE IF fs[i].type = "string" THEN StrV("hello")
            ELSE StructV(fs[i].type, Sample(fs[i].type)) ]

LiveValues(T) == { Zero(T), Sample(T) }

\* The objects read: the bodies, each without a "Version" key and with one
\* from -1 to MaxTag.

Bodies ==
    { << KV("ID", IntV(42)), KV("Name", StrV("dale_cooper")) >>,
      << KV("ID", StrV("002a")), KV("UserName", StrV("dale_cooper")),
         KV("DisplayName", StrV("dale_cooper")) >>,
      << KV("Text", StrV("hello")), KV("Number", IntV(42)) >>,
      << KV("A", StrV("a")) >>,
      << KV("A", StrV("a")), KV("B", StrV("b")), KV("C", StrV("c")) >>,
      << KV("Value", StrV("2a")) >>,
      << KV("Value", StrV("hello")) >>,
      << >> }

Tags == (0 - 1)..MaxTag

WithVersion(pairs, tag) == << KV("Version", IntV(tag)) >> \o pairs

\* Bytes that are no JSON value, and an object whose Version is a string.
BadSyntax == << LBrace >>
BadVersion == Object(<< KV("Version", StrV("1")) >>)

Inputs ==
    { Object(b) : b \in Bodies }
        \cup { Object(WithVersion(b, tag)) : b \in Bodies, tag \in Tags }
        \cup { NullBytes, BadSyntax, BadVersion }

(***************************************************************************)
(* The state: the registry, and the call in progress or last made.         *)
(* Register, resetRegistry and Marshal are single steps.  Unmarshal moves  *)
(* through resolve, detect, decode, upgrade (one step for each version)    *)
(* and finalize.  A call that has ended (pc = "done") keeps its outcome    *)
(* until the caller goes on (Done).  Register must not run concurrently    *)
(* with another call, so a call starts only when none is in progress.      *)
(* threads holds the calls of the goroutines of the concurrent             *)
(* specification below, and stays as it is here.                           *)
(***************************************************************************)
VARIABLES entryByType, call, threads

vars == << entryByType, call, threads >>

Free == call.pc = "idle"

Callable == (DOMAIN entryByType \cup Strangers) \cap CallTypes

\* The goroutines that call Marshal and Unmarshal at the same time, once
\* the init functions have registered the types.
Threads == 1..NumThreads
NoThreads == [ t \in Threads |-> Idle ]

Init ==
    /\ entryByType = << >>
    /\ call = Idle
    /\ threads = << >>

\* registerError(prototype, versionPrototypes...)
Register(prototype, versionPrototypes) ==
    LET r == registerError(entryByType, prototype, versionPrototypes)
    IN  /\ Free
        /\ Cardinality(DOMAIN r.entryByType) <= MaxEntries
        /\ entryByType' = r.entryByType
        /\ call' = [Idle EXCEPT !.op = "Register", !.pc = "done",
                                !.v = [kind |-> "struct", type |-> prototype, val |-> << >>],
                                !.versionPrototypes = versionPrototypes,
                                !.err = r.err]
        /\ UNCHANGED threads

resetRegistry ==
    /\ Free
    /\ entryByType # << >>
    /\ entryByType' = << >>
    /\ call' = [Idle EXCEPT !.op = "resetRegistry", !.pc = "done"]
    /\ UNCHANGED threads

\* Marshal(v)
Marshalled(v, roundTrip, input, r) ==
    [Idle EXCEPT !.op = "Marshal", !.pc = "done", !.v = v,
                 !.roundTrip = roundTrip, !.input = input,
                 !.data = r.data, !.err = r.err, !.panic = r.panic, !.log = r.log]

MarshalCall(v, roundTrip, input) ==
    /\ call' = Marshalled(v, roundTrip, input, Marshal(entryByType, v))
    /\ UNCHANGED << entryByType, threads >>

MarshalValue ==
    /\ Free
    /\ \E T \in Callable, kind \in { "struct", "ptr" } :
          \E val \in (IF Kind(T) = "struct" THEN LiveValues(T) ELSE { << >> }) :
              MarshalCall([kind |-> kind, type |-> T, val |-> val], 0, NilBytes)

MarshalNil ==
    /\ Free
    /\ \/ MarshalCall(NoArg, 0, NilBytes)
       \/ \E T \in Callable : MarshalCall([kind |-> "nilptr", type |-> T, val |-> << >>], 0, NilBytes)

\* Marshal(&value) of the value a successful Unmarshal has just filled.
MarshalResult ==
    /\ call.op = "Unmarshal" /\ call.pc = "done"
    /\ call.err = NoErr /\ ~call.panic /\ call.detected > 0
    /\ MarshalCall([kind |-> "ptr", type |-> call.v.type, val |-> call.live], call.detected,
                   call.data)

\* Unmarshal(data, v): the call is made.
UnmarshalCall ==
    /\ Free
    /\ \E data \in Inputs :
          \/ \E T \in Callable :
                \E live \in (IF Kind(T) = "struct" THEN LiveValues(T) ELSE { << >> }) :
                    call' = Entered(data, [kind |-> "ptr", type |-> T, val |-> << >>], live)
          \/ \E T \in Callable, kind \in { "nonptr", "nilptr" } :
                call' = Entered(data, [kind |-> kind, type |-> T, val |-> << >>], << >>)
          \/ call' = Entered(data, NoArg, << >>)
    /\ UNCHANGED << entryByType, threads >>

\* The call has returned and the caller goes on.
Done ==
    /\ call.pc = "done"
    /\ call' = Idle
    /\ UNCHANGED << entryByType, threads >>

\* Lines 576-593: the target must be a non-nil pointer, and its type registered.
UnmarshalResolve ==
    /\ call.op = "Unmarshal" /\ call.pc = "resolve"
    /\ call' = resolve(call, entryByType)
    /\ UNCHANGED << entryByType, threads >>

\* Lines 595-602: the null shortcut and the version.
UnmarshalDetect ==
    /\ call.op = "Unmarshal" /\ call.pc = "detect"
    /\ call' = detect(call)
    /\ UNCHANGED << entryByType, threads >>

\* Lines 604-613: the version's struct, and the bytes decoded into a new one.
UnmarshalDecode ==
    /\ call.op = "Unmarshal" /\ call.pc = "decode"
    /\ call' = decode(call)
    /\ UNCHANGED << entryByType, threads >>

\* Lines 615-628: one iteration of the upgrade loop.
UnmarshalUpgrade ==
    /\ call.op = "Unmarshal" /\ call.pc = "upgrade"
    /\ call.version < call.entry.latestVersion
    /\ call' = upgrade(call)
    /\ UNCHANGED << entryByType, threads >>

\* Lines 630-638: the latest version's value goes to the live value.
UnmarshalFinalize ==
    /\ call.op = "Unmarshal" /\ call.pc = "upgrade"
    /\ ~(call.version < call.entry.latestVersion)
    /\ call' = finalize(call)
    /\ UNCHANGED << entryByType, threads >>

Next ==
    \/ \E c \in RegisterCalls : Register(c.prototype, c.versionPrototypes)
    \/ resetRegistry
    \/ MarshalValue
    \/ MarshalNil
    \/ MarshalResult
    \/ UnmarshalCall
    \/ UnmarshalResolve
    \/ UnmarshalDetect
    \/ UnmarshalDecode
    \/ UnmarshalUpgrade
    \/ UnmarshalFinalize
    \/ Done

Spec == Init /\ [][Next]_vars

(***************************************************************************)
(* Concurrent calls.  The init functions have registered the types         *)
(* (Register must not be called concurrently with any other call), and     *)
(* then each goroutine calls Marshal and Unmarshal, its steps interleaved  *)
(* with those of the others.  Each goroutine passes a value of its own.    *)
(* A step is given the registry and the call and yields both as it leaves  *)
(* them: the local variables of Marshal and Unmarshal are the call's, and  *)
(* entryByType is the one variable of the package.                         *)
(***************************************************************************)
\* The registry after the calls of Register of the init functions.
RECURSIVE registerAll(_, _)
registerAll(registry, calls) ==
    IF calls = << >> THEN registry
    ELSE registerAll(registerError(registry, Head(calls).prototype,
                                   Head(calls).versionPrototypes).entryByType,
                     Tail(calls))

Startups ==
    { << Reg("User", << "UserV1", "UserV2", "UserV3" >>), Reg("Example", << "ExampleV1" >>) >>,
      << Reg("UpgradeError", << "UpgradeErrorV1", "UpgradeErrorV2" >>),
         Reg("Simple", << "SimpleUnpackV1" >>) >> }

ConcurrentInputs ==
    { Object(<< KV("ID", IntV(42)), KV("Name", StrV("dale_cooper")) >>),
      Object(<< KV("Version", IntV(1)), KV("Value", StrV("2a")) >>),
      Object(<< KV("Version", IntV(4)) >>),
      NullBytes }

\* A step of Unmarshal (lines 575-639) that drops the entry of its type from
\* the registry when it returns an error.
unmarshalStepEvicting(registry, c) ==
    IF step(c, registry).err # NoErr
    THEN [registry |-> [ T \in DOMAIN registry \ { c.v.type } |-> registry[T] ],
          call |-> step(c, registry)]
    ELSE [registry |-> registry, call |-> step(c, registry)]

\* A step of Unmarshal (lines 575-639): entryByType is read (line 590), and
\* nothing is assigned to it or to what it holds.
unmarshalStep(registry, c) == [registry |-> registry, call |-> step(c, registry)]

\* Marshal (lines 508-568): entryByType is read (line 515), and nothing is
\* assigned to it or to what it holds.
marshalCall(registry, v) ==
    [registry |-> registry, call |-> Marshalled(v, 0, NilBytes, Marshal(registry, v))]

InitC ==
    /\ entryByType \in { registerAll(<< >>, calls) : calls \in Startups }
    /\ call = Idle
    /\ threads = NoThreads

\* Goroutine t calls Unmarshal(data, &value) on a value of a registered type.
ThreadUnmarshal(t) ==
    /\ threads[t].pc = "idle"
    /\ \E data \in ConcurrentInputs, T \in DOMAIN entryByType :
          threads' = [threads EXCEPT
                         ![t] = Entered(data, [kind |-> "ptr", type |-> T, val |-> << >>],
                                        Sample(T))]
    /\ UNCHANGED << entryByType, call >>

\* A step of the Unmarshal of goroutine t.
ThreadStep(t) ==
    /\ threads[t].op = "Unmarshal" /\ threads[t].pc \notin { "idle", "done" }
    /\ LET r == unmarshalStep(entryByType, threads[t])
       IN  /\ entryByType' = r.registry
           /\ threads' = [threads EXCEPT ![t] = r.call]
    /\ UNCHANGED call

\* Goroutine t calls Marshal(&value) on a value of a registered type.
ThreadMarshal(t) ==
    /\ threads[t].pc = "idle"
    /\ \E T \in DOMAIN entryByType : \E val \in LiveValues(T) :
          LET r == marshalCall(entryByType, [kind |-> "ptr", type |-> T, val |-> val])
          IN  /\ entryByType' = r.registry
              /\ threads' = [threads EXCEPT ![t] = r.call]
    /\ UNCHANGED call

\* The call of goroutine t has returned and the goroutine goes on.
ThreadDone(t) ==
    /\ threads[t].pc = "done"
    /\ threads' = [threads EXCEPT ![t] = Idle]
    /\ UNCHANGED << entryByType, call >>

NextC ==
    \/ \E t \in Threads : ThreadUnmarshal(t)
    \/ \E t \in Threads : ThreadStep(t)
    \/ \E t \in Threads : ThreadMarshal(t)
    \/ \E t \in Threads : ThreadDone(t)

SpecC == InitC /\ [][NextC]_vars

(***************************************************************************)
(* Properties.                                                             *)
(***************************************************************************)
\* The versions of the events of log whose operation is one of ops, in order.
Logged(log, ops) == SelectSeq(log, LAMBDA e : e.op \in ops)
Versions(log, ops) == [ i \in 1..Len(Logged(log, ops)) |-> Logged(log, ops)[i].version ]

\* << k + 1, ..., n >>
Range(k, n) == [ i \in 1..(n - k) |-> k + i ]

\* The members of an object with the given key.
Keyed(data, key) == SelectSeq(data, LAMBDA x : x.tok = "kv" /\ x.key = key)

\* The object carries "Version": n, once.
Tagged(data, n) == WellFormed(data) /\ Keyed(data, "Version") = << KV("Version", IntV(n)) >>

\* The call is an Unmarshal that has found its entry, has decoded its input.
Resolved(c) == c.op = "Unmarshal" /\ c.entry # NoEntry
Decoded(c) == c.op = "Unmarshal" /\ c.currentType # NilType

\* The call ended with the error of the Upgrade hook it ran last.
UpgradeFailed(c) ==
    /\ c.pc = "done" /\ c.err # NoErr
    /\ c.log # << >> /\ c.log[Len(c.log)].op = "Upgrade"

\* The versions from..to whose struct declares an Upgrade method.
Hooked(entry, from, to) == { j \in (from + 1)..to : IsValid(entry.versions[j].upgradeFunc) }

\* The struct types of an entry's versions, in order.
Shapes(entry) == [ i \in DOMAIN entry.versions |-> entry.versions[i].rtype ]

\* A new struct of type T with the mapped fields of prev copied into it.
Copied(prev, T, mappings) ==
    [ i \in 1..NumField(T) |->
        IF \E n \in 1..Len(mappings) : mappings[n].dst = i - 1
        THEN prev[mappings[CHOOSE n \in 1..Len(mappings) : mappings[n].dst = i - 1].src + 1]
        ELSE Zero(T)[i] ]

\* The error a hook's return values carry: the last one, if there is any.
Raised(r) == IF r.returnValues = << >> THEN NoErr ELSE r.returnValues[Len(r.returnValues)]

\* This step is an iteration of Unmarshal's upgrade loop, is its conversion
\* to the live value, is a call of Marshal.
UpgradeStep ==
    /\ call.op = "Unmarshal" /\ call.pc = "upgrade"
    /\ call'.op = "Unmarshal" /\ call'.version = call.version + 1
FinalizeStep ==
    /\ call.op = "Unmarshal" /\ call.pc = "upgrade"
    /\ call'.op = "Unmarshal" /\ call'.pc = "done" /\ call'.version = call.version
MarshalStep ==
    /\ call' # call /\ call'.op = "Marshal"
    /\ call'.v.kind \in { "struct", "ptr" } /\ call'.v.type \in DOMAIN entryByType

\* C1 (as amended): once Unmarshal of an input of detected version k has
\* decoded it, the upgrade steps it has made are those to k + 1, k + 2, ...,
\* up to the version it is at, each once and in that order, every one with
\* the Upgrade hook of its struct if it declares one and no hook else; the
\* version never exceeds N; the call ends at version N unless an Upgrade hook
\* returned an error, and the conversion to the live value comes last.
C1_UpgradeChain ==
    Decoded(call) =>
        /\ call.detected \in 1..call.entry.latestVersion
        /\ call.version \in call.detected..call.entry.latestVersion
        /\ Versions(call.log, { "New" }) = Range(call.detected, call.version)
        /\ Versions(call.log, { "copyFields" }) = Range(call.detected, call.version)
        /\ \A i \in 1..Len(Versions(call.log, { "Upgrade" })) :
              \A j \in 1..Len(Versions(call.log, { "Upgrade" })) :
                  i < j => Versions(call.log, { "Upgrade" })[i] < Versions(call.log, { "Upgrade" })[j]
        /\ { e.version : e \in { call.log[i] : i \in 1..Len(call.log) } \cap
                                 { Ev("Upgrade", j) : j \in 0..call.entry.latestVersion } }
               = Hooked(call.entry, call.detected, call.version)
        /\ (call.pc = "done" /\ ~UpgradeFailed(call) => call.version = call.entry.latestVersion)
        /\ (Logged(call.log, { "Unpack", "copyLive" }) # << >> =>
               /\ call.version = call.entry.latestVersion
               /\ call.log[Len(call.log)].op \in { "Unpack", "copyLive" }
               /\ Len(Logged(call.log, { "Unpack", "copyLive" })) = 1)

\* An Unmarshal of a version 1 input under three versions has made the steps
\* to 2 and to 3 and has ended.
C1_Witness ==
    /\ Decoded(call) /\ call.pc = "done" /\ call.err = NoErr
    /\ call.detected = 1 /\ call.entry.latestVersion = 3
    /\ Versions(call.log, { "New" }) = << 2, 3 >>

\* C1 as the specification states it: every Unmarshal that has decoded its
\* input of version k makes exactly the N - k steps to k + 1, ..., N.
C1_AsStated ==
    Decoded(call) /\ call.pc = "done" =>
        Versions(call.log, { "New" }) = Range(call.detected, call.entry.latestVersion)

\* C2: the bytes a successful Marshal returns have exactly one "Version" key,
\* and its value is the latest version of the value's type.
C2_OneVersionKey ==
    call.op = "Marshal" /\ call.pc = "done" /\ call.err = NoErr /\ ~call.panic =>
        Keyed(call.data, "Version")
            = << KV("Version", IntV(entryByType[call.v.type].latestVersion)) >>

\* The object with its "Version" key, if any, replaced by "Version": 1.
AsVersionOne(data) ==
    Object(<< KV("Version", IntV(1)) >>
               \o SelectSeq(Members(data), LAMBDA x : x.key # "Version"))

\* How a call of Unmarshal ends: the error, the live value, the hooks run.
Outcome(c) ==
    [err |-> c.err, live |-> c.live, panic |-> c.panic,
     hooks |-> Logged(c.log, { "Upgrade", "Unpack" })]

\* C3: Unmarshal of an object with no "Version" key, or with "Version": 0,
\* ends as Unmarshal of the same object with "Version": 1 does.
C3_AbsentIsVersionOne ==
    /\ call.op = "Unmarshal" /\ call.pc = "done" /\ call.v.kind = "ptr"
    /\ call.v.type \in DOMAIN entryByType
    /\ WellFormed(call.data)
    /\ Keyed(call.data, "Version") \in { << >>, << KV("Version", IntV(0)) >> }
    => Outcome(call)
           = Outcome(Unmarshal(entryByType, AsVersionOne(call.data), call.v, call.before))

IntroInput == Object(<< KV("ID", IntV(42)), KV("Name", StrV("dale_cooper")) >>)
IntroLive == << StrV("002a"), StrV("dale_cooper"), StrV("dale_cooper") >>
IntroOutput ==
    Object(<< KV("Version", IntV(3)), KV("ID", StrV("002a")),
              KV("UserName", StrV("dale_cooper")), KV("DisplayName", StrV("dale_cooper")) >>)

\* C4: with User registered with UserV1, UserV2 and UserV3, Unmarshal of
\* {"ID":42,"Name":"dale_cooper"} gives the User {"002a", "dale_cooper",
\* "dale_cooper"}, and Marshal of that User gives {"Version":3,"ID":"002a",
\* "UserName":"dale_cooper","DisplayName":"dale_cooper"}.
C4_Introduction ==
    ("User" \in DOMAIN entryByType /\ call.pc = "done"
        /\ Shapes(entryByType["User"]) = << "UserV1", "UserV2", "UserV3" >>) =>
        /\ (call.op = "Unmarshal" /\ call.data = IntroInput
               /\ call.v = [kind |-> "ptr", type |-> "User", val |-> << >>]) =>
               call.err = NoErr /\ ~call.panic /\ call.live = IntroLive
        /\ (call.op = "Marshal" /\ call.v.type = "User" /\ call.v.val = IntroLive
               /\ call.v.kind \in { "struct", "ptr" }) =>
               call.err = NoErr /\ ~call.panic /\ call.data = IntroOutput

\* The User read from the example's input has been written back.
C4_Witness ==
    /\ call.op = "Marshal" /\ call.pc = "done" /\ call.input = IntroInput
    /\ call.v.val = IntroLive /\ call.data = IntroOutput

\* C5: an upgrade step to version j makes a new struct of version j, copies
\* the mapped fields of the previous struct into it and then, if the struct
\* declares one, calls its Upgrade hook with the new and the previous struct:
\* the hook reads the copied fields, and what it writes stays.
C5_CopyThenUpgrade ==
    [][UpgradeStep =>
        LET j == call'.version
            nextContext == call.entry.versions[j]
            hook == IsValid(nextContext.upgradeFunc)
            new == Copied(call.current, nextContext.rtype, nextContext.mappings)
        IN  /\ SubSeq(call'.log, Len(call.log) + 1, Len(call'.log))
                  = << Ev("New", j), Ev("copyFields", j) >>
                        \o (IF hook THEN << Ev("Upgrade", j) >> ELSE << >>)
            /\ ~hook => call'.current = new
            /\ hook /\ call'.err = NoErr =>
                  call'.current = Call(nextContext.upgradeFunc, << new, call.current >>).params[1]
            \* CheckedV2.Upgrade reads the copied A.
            /\ nextContext.rtype = "CheckedV2" /\ call'.err = NoErr =>
                  call'.current = << call.current[1], StrV("b" \o call.current[1].v) >>
            \* CheckedV3.Upgrade reads the copied BA and writes the copied A.
            /\ nextContext.rtype = "CheckedV3" =>
                  call'.current = << StrV("x" \o call.current[2].v), call.current[2] >>
      ]_vars

\* CheckedV3.Upgrade has replaced the A copied from version 2.
C5_Witness ==
    /\ call.op = "Unmarshal" /\ call.currentType = "CheckedV3"
    /\ call.current = << StrV("xba"), StrV("ba") >>

\* C6: Marshal of the live value that Unmarshal has filled from an object
\* tagged "Version": k gives an object tagged "Version": N.
C6_RoundTrip ==
    /\ call.op = "Marshal" /\ call.pc = "done" /\ call.err = NoErr /\ ~call.panic
    /\ call.roundTrip > 0 /\ Tagged(call.input, call.roundTrip)
    => Tagged(call.data, entryByType[call.v.type].latestVersion)

\* The call has decoded nothing, upgraded nothing, run no hook and left the
\* live value alone.
Quiet(c) ==
    /\ Logged(c.log, { "json.Unmarshal", "New", "copyFields", "Upgrade", "Unpack", "copyLive" })
           = << >>
    /\ c.live = c.before /\ ~c.panic

\* C7: Unmarshal into a registered type of an object whose Version is
\* negative returns the negative version error, and of one whose Version is
\* greater than N the unsupported version error; neither decodes into a
\* version struct, upgrades or runs a hook.
C7_VersionOutOfRange ==
    Resolved(call) /\ call.pc = "done" =>
        \A n \in Tags :
            Tagged(call.data, n) =>
                /\ n < 0 =>
                      /\ call.err = Errorf("vjson: cannot unmarshal object: negative version number",
                                           << >>)
                      /\ Quiet(call)
                /\ n > call.entry.latestVersion =>
                      /\ call.err = Errorf("vjson: unsupported version for %v: %d",
                                           << call.v.type, Dec(n) >>)
                      /\ Quiet(call)

\* An object of a version above N has been rejected.
C7_Witness ==
    /\ Resolved(call) /\ call.pc = "done"
    /\ Tagged(call.data, call.entry.latestVersion + 1)
    /\ call.err.text = "vjson: unsupported version for %v: %d"

NotRegistered(T) == Errorf("vjson: type not registered: %v", << T >>)

\* C8 (as amended): Marshal of a struct or of a non-nil pointer to one, and
\* Unmarshal into a non-nil pointer, return the not registered error when
\* the struct type has no entry, whatever the value and the bytes, and do
\* nothing else.
C8_NotRegistered ==
    /\ call.pc = "done" /\ call.v.type \notin DOMAIN entryByType
    /\ \/ call.op = "Marshal" /\ call.v.kind \in { "struct", "ptr" }
       \/ call.op = "Unmarshal" /\ call.v.kind = "ptr"
    => /\ call.err = NotRegistered(call.v.type)
       /\ ~call.panic /\ call.log = << >>
       /\ call.op = "Marshal" => call.data = NilBytes
       /\ call.op = "Unmarshal" => call.live = call.before

\* Unmarshal of null into a type that has no entry has been rejected.
C8_Witness ==
    /\ call.op = "Unmarshal" /\ call.pc = "done" /\ call.v.kind = "ptr"
    /\ call.v.type \notin DOMAIN entryByType
    /\ call.data = NullBytes /\ call.err = NotRegistered(call.v.type)

\* C8 as the specification states it: every Marshal of a value that is not
\* nil, and every Unmarshal, whose argument's type, a pointer followed, has
\* no entry returns the not registered error.
C8_AsStated ==
    /\ call.pc = "done" /\ call.v.type \notin DOMAIN entryByType
    /\ \/ call.op = "Marshal" /\ call.v.kind \in { "struct", "ptr" }
       \/ call.op = "Unmarshal" /\ call.v.kind \in { "ptr", "nonptr", "nilptr" }
    => call.err = NotRegistered(call.v.type) /\ ~call.panic

\* C9: the error an Upgrade, Pack or Unpack hook returns is the error of
\* the call, as it is, and ends the call: after a failed Upgrade nothing
\* more is logged and the live value is as it was, after a failed Pack no
\* bytes are returned, and nothing follows a failed call but the caller
\* going on; a hook that returns nothing or nil lets the call go on.
C9_HookErrors ==
    [][/\ UpgradeStep /\ IsValid(call.entry.versions[call'.version].upgradeFunc) =>
            LET nextContext == call.entry.versions[call'.version]
                new == Copied(call.current, nextContext.rtype, nextContext.mappings)
                e == Raised(Call(nextContext.upgradeFunc, << new, call.current >>))
            IN  /\ e # NoErr =>
                      /\ call'.pc = "done" /\ call'.err = e
                      /\ call'.live = call.live
                      /\ call'.log[Len(call'.log)] = Ev("Upgrade", call'.version)
                /\ e = NoErr => call'.pc = "upgrade" /\ call'.err = NoErr
                /\ \/ nextContext.rtype = "CheckedV2" /\ call.current[1].v = ""
                   \/ nextContext.rtype = "UpgradeErrorV2"
                   => call'.err = Errorf("upgrade error", << >>)
       /\ FinalizeStep /\ IsValid(call.entry.unmarshal.unpackFunc) =>
            /\ call'.err = Raised(Call(call.entry.unmarshal.unpackFunc,
                                       << call.current, call.live >>))
            /\ call.currentType = "RawErrorV1" => call'.err = Errorf("test error", << >>)
       /\ MarshalStep /\ IsValid(entryByType[call'.v.type].marshal.packFunc) =>
            LET marshal == entryByType[call'.v.type].marshal
                e == Raised(Call(marshal.packFunc, << Zero(marshal.rtype), call'.v.val >>))
            IN  /\ e # NoErr => call'.err = e /\ call'.data = NilBytes
                /\ e = NoErr => call'.err = NoErr /\ call'.data # NilBytes
                /\ marshal.rtype = "RawErrorV1" => call'.err = Errorf("test error", << >>)
       /\ call.pc = "done" /\ call.err # NoErr => call' = Idle
      ]_vars

\* CheckedV2.Upgrade has failed under three versions, and the call has
\* ended at version 2 with its error.
C9_Witness ==
    /\ call.op = "Unmarshal" /\ call.pc = "done"
    /\ call.entry.latestVersion = 3 /\ call.version = 2
    /\ UpgradeFailed(call) /\ call.err = Errorf("upgrade error", << >>)

\* C10: a call of registerError that returns an error leaves the registry as
\* it was; the registry gains an entry only by a call that returns none, and
\* then the one complete entry of the registered type.
C10_AllOrNothing ==
    [][/\ call'.op = "Register" /\ call' # call /\ call'.err # NoErr =>
            entryByType' = entryByType
       /\ entryByType' # entryByType /\ call'.op # "resetRegistry" =>
            /\ call'.op = "Register" /\ call'.err = NoErr
            /\ call'.v.type \notin DOMAIN entryByType
            /\ DOMAIN entryByType' = DOMAIN entryByType \cup { call'.v.type }
            /\ \A T \in DOMAIN entryByType : entryByType'[T] = entryByType[T]
            /\ Shapes(entryByType'[call'.v.type]) = call'.versionPrototypes
            /\ entryByType'[call'.v.type].latestVersion = Len(call'.versionPrototypes)
            /\ entryByType'[call'.v.type].marshal.rtype
                   = call'.versionPrototypes[Len(call'.versionPrototypes)]
      ]_vars

\* A registration has been rejected for a Pack method on a version that is
\* not the latest, while the registry holds an entry.
C10_Witness ==
    /\ call.op = "Register" /\ call.pc = "done"
    /\ call.err.text = "detected Pack method on %v, which is not the latest version"
    /\ entryByType # << >>

\* This step is a call of registerError, of resetRegistry.
RegisterStep == call.pc = "idle" /\ call'.op = "Register"
ResetStep == call.pc = "idle" /\ call'.op = "resetRegistry"

AlreadyRegistered(T) == Errorf("type %v already registered", << T >>)

NonStruct(c) ==
    \/ Kind(c.v.type) # "struct"
    \/ \E i \in 1..Len(c.versionPrototypes) : Kind(c.versionPrototypes[i]) # "struct"
NoVersions(c) == c.versionPrototypes = << >>
DeclaresVersion(T) == \E i \in 1..NumField(T) : Fields(T)[i].name = "Version"

\* C12: registerError returns an error when the live prototype is not a
\* struct, when a version prototype is not a struct, when no version
\* prototype is given and when the live type declares a field named
\* Version, and the registry stays as it was; the error names the first of
\* these that the call meets.
C12_InvalidPrototype ==
    [][RegisterStep
         /\ (NonStruct(call') \/ NoVersions(call') \/ DeclaresVersion(call'.v.type)) =>
            /\ call'.err # NoErr
            /\ entryByType' = entryByType
            /\ Kind(call'.v.type) # "struct" =>
                  call'.err = Errorf("only structs are allowed, but found %v",
                                     << call'.v.type >>)
            /\ Kind(call'.v.type) = "struct" /\ call'.v.type \notin DOMAIN entryByType =>
                  /\ NoVersions(call') =>
                        call'.err = Errorf("must provide at least one version prototype", << >>)
                  /\ ~NoVersions(call') /\ DeclaresVersion(call'.v.type) =>
                        call'.err.text = "type %v must not contain a field named Version, as it is reserved for vjson"
                  /\ ~NoVersions(call') /\ ~DeclaresVersion(call'.v.type)
                        /\ Kind(call'.versionPrototypes[1]) # "struct" =>
                        call'.err = Errorf("only structs are allowed, but found %v for version %d",
                                           << call'.versionPrototypes[1], Dec(1) >>)
      ]_vars

\* A second version prototype that is not a struct has been rejected while
\* the registry holds an entry.
C12_Witness ==
    /\ call.op = "Register" /\ call.pc = "done" /\ entryByType # << >>
    /\ Len(call.versionPrototypes) = 2 /\ Kind(call.versionPrototypes[2]) # "struct"
    /\ call.err = Errorf("only structs are allowed, but found %v for version %d",
                         << call.versionPrototypes[2], Dec(2) >>)

\* The name of the field a version's field is copied from: its vjson tag,
\* or its own name.
SourceName(f) == IF f.hasTag THEN f.tag ELSE f.name

\* A field of cur is matched, by its name or by its tag, to a field that
\* prev declares with another type.
Mismatched(prev, cur) ==
    \E i \in 1..NumField(cur), k \in 1..NumField(prev) :
        /\ ~(Fields(cur)[i].hasTag /\ Fields(cur)[i].tag = "")
        /\ Fields(prev)[k].name = SourceName(Fields(cur)[i])
        /\ Fields(prev)[k].type # Fields(cur)[i].type

\* The live type and the latest version declare a field of the same name
\* with different types.
MismatchedLive(T, last) ==
    \E i \in 1..NumField(T), k \in 1..NumField(last) :
        /\ Fields(T)[i].name = Fields(last)[k].name
        /\ Fields(T)[i].type # Fields(last)[k].type

\* The prototypes of a call of registerError are structs, and there is a
\* version prototype.
StructsOnly(c) ==
    /\ Kind(c.v.type) = "struct" /\ c.versionPrototypes # << >>
    /\ \A i \in 1..Len(c.versionPrototypes) : Kind(c.versionPrototypes[i]) = "struct"

Latest(c) == c.versionPrototypes[Len(c.versionPrototypes)]

DifferentTypes == "field %s has different types in %v (%v) and %v (%v)"

\* C13: registerError returns an error when a field of a version is
\* matched, by name or by tag, to a field of the version before it that has
\* another type, when the latest version has no Pack method, or no Unpack
\* method, and the live type and the latest version have a field of the
\* same name with different types; in the calls of the tests the error is
\* the one that names the two fields and types.
C13_TypeMismatch ==
    call.op = "Register" /\ call.pc = "done" /\ StructsOnly(call) =>
        /\ (\E j \in 2..Len(call.versionPrototypes) :
                Mismatched(call.versionPrototypes[j - 1], call.versionPrototypes[j]))
               => call.err # NoErr
        /\ (MismatchedLive(call.v.type, Latest(call))
               /\ { "Pack", "Unpack" } \ Methods(Latest(call)) # { })
               => call.err # NoErr
        /\ call.v.type \in { "TypeMismatchA", "TypeMismatchB" } =>
               call.err = Errorf(DifferentTypes,
                                 IF call.v.type = "TypeMismatchA"
                                 THEN << "Message", "TypeMismatchA", "string",
                                         "TypeMismatchAV1", "int" >>
                                 ELSE << "Message", "TypeMismatchBV1", "int",
                                         "TypeMismatchBV2", "string" >>)
        /\ call.v.type = "TypeMismatchC" =>
               call.err = Errorf("cannot copy field %s (%v) in %v to field %s (%v) in %v because they have different types",
                                 << "OldMessage", "int", "TypeMismatchCV1",
                                    "Message", "string", "TypeMismatchCV2" >>)
        /\ (call.v.type \notin DOMAIN entryByType
               /\ Latest(call) \in { "ExamplePackV1", "ExampleUnpackV1" }
               /\ call.versionPrototypes = << Latest(call) >>) =>
               call.err = Errorf(DifferentTypes,
                                 << "Value", call.v.type, "int", Latest(call), "string" >>)

\* A latest version with a Pack method and no Unpack method has been
\* rejected for the type of a field it shares with the live type.
C13_Witness ==
    /\ call.op = "Register" /\ call.pc = "done"
    /\ call.versionPrototypes = << "ExamplePackV1" >>
    /\ call.err = Errorf(DifferentTypes,
                         << "Value", "Example", "int", "ExamplePackV1", "string" >>)

\* The call is a registerError that has stored the entry of its type.  An
\* entry stays as it is stored (C11), so what holds of it here holds of it
\* as long as the registry has it.
Stored(c) == c.op = "Register" /\ c.pc = "done" /\ c.err = NoErr

\* T declares a field of this name (a direct field, not a promoted one).
Declares(T, name) == \E k \in 1..NumField(T) : Fields(T)[k].name = name

\* Field i (from 0) of a version is the destination of one of the mappings.
Mapped(mappings, i) == \E n \in 1..Len(mappings) : mappings[n].dst = i

MissingSource == "field %s in %v has tag %s, but there is no such field in %v"

\* C14: in the mappings from version j-1 to version j of the entry a
\* registerError has stored, a field of version j without a vjson tag whose
\* name version j-1 does not declare has no mapping, and the call has
\* returned no error for it;
\* registerError returns an error when a field of a version has a non-empty
\* vjson tag that names no field the version before it declares, a field
\* promoted from an embedded struct not counting as declared.
C14_MissingSource ==
    /\ Stored(call) =>
          \A j \in 2..Len(call.versionPrototypes) :
              \A i \in 1..NumField(call.versionPrototypes[j]) :
                  /\ Fields(call.versionPrototypes[j])[i].tag # ""
                        \/ ~Fields(call.versionPrototypes[j])[i].hasTag
                  /\ ~Declares(call.versionPrototypes[j - 1],
                               SourceName(Fields(call.versionPrototypes[j])[i]))
                  => /\ ~Fields(call.versionPrototypes[j])[i].hasTag
                     /\ ~Mapped(entryByType[call.v.type].versions[j].mappings, i - 1)
    /\ call.op = "Register" /\ call.pc = "done" /\ StructsOnly(call) =>
          /\ (\E j \in 2..Len(call.versionPrototypes) :
                  \E i \in 1..NumField(call.versionPrototypes[j]) :
                      /\ Fields(call.versionPrototypes[j])[i].hasTag
                      /\ Fields(call.versionPrototypes[j])[i].tag # ""
                      /\ ~Declares(call.versionPrototypes[j - 1],
                                   Fields(call.versionPrototypes[j])[i].tag))
                 => call.err # NoErr
          /\ (call.v.type \notin DOMAIN entryByType
                 /\ call.versionPrototypes = << "SimpleV1", "RenamingV2" >>)
                 => call.err = Errorf(MissingSource, << "X", "RenamingV2", "A", "SimpleV1" >>)
          /\ (call.v.type \notin DOMAIN entryByType
                 /\ call.versionPrototypes = << "EmbeddedParentV1", "EmbeddedTagV2" >>)
                 => call.err = Errorf(MissingSource,
                                      << "B", "EmbeddedTagV2", "A", "EmbeddedParentV1" >>)
          /\ call.versionPrototypes \in
                 { << "RenamingV1", "RenamingV2" >>,
                   << "EmbeddedParentV1", "EmbeddedFlatV2", "EmbeddedParentV2" >> }
                 => call.err \in { NoErr, AlreadyRegistered(call.v.type) }

\* Renaming is registered with RenamingV1 and RenamingV2: X is mapped from
\* A, and Y, which RenamingV1 does not declare, is not mapped.
C14_Witness ==
    /\ "Renaming" \in DOMAIN entryByType
    /\ Shapes(entryByType["Renaming"]) = << "RenamingV1", "RenamingV2" >>
    /\ entryByType["Renaming"].versions[2].mappings = << mapping(0, 0) >>
    /\ call.op = "Register" /\ call.pc = "done"
    /\ call.err = Errorf(MissingSource, << "B", "EmbeddedTagV2", "A", "EmbeddedParentV1" >>)

\* Field i of T carries the empty vjson tag.
Suppressed(T, i) == Fields(T)[i].hasTag /\ Fields(T)[i].tag = ""

\* The index (from 1) of the field T declares under a name.
FieldNamed(T, name) == CHOOSE k \in 1..NumField(T) : Fields(T)[k].name = name

\* The struct of type cur an upgrade step hands to the Upgrade hook, from the
\* declarations: the zero value in a field with the empty tag and in one whose
\* source prevType does not declare, the value of the source field else.
Prepared(prev, prevType, cur) ==
    [ i \in 1..NumField(cur) |->
        IF Suppressed(cur, i) \/ ~Declares(prevType, SourceName(Fields(cur)[i]))
        THEN Zero(cur)[i]
        ELSE prev[FieldNamed(prevType, SourceName(Fields(cur)[i]))] ]

\* C15: in the entry registerError stores, a field of version j with the
\* empty vjson tag has no mapping from version j-1, whether or not version j-1 declares a field of its name, and
\* of whatever type; the step to version j hands the Upgrade hook a struct in
\* which the field is zero, and without a hook the field is zero after the
\* step; UserV3, whose ID differs in type from that of UserV2, registers.
C15_EmptyTag ==
    [][/\ RegisterStep /\ Stored(call') =>
            \A j \in 2..Len(call'.versionPrototypes) :
                \A i \in 1..NumField(call'.versionPrototypes[j]) :
                    Suppressed(call'.versionPrototypes[j], i)
                        => ~Mapped(entryByType'[call'.v.type].versions[j].mappings, i - 1)
       /\ (RegisterStep /\ call'.v.type \notin DOMAIN entryByType
              /\ call'.versionPrototypes \in
                    { << "UserV1", "UserV2", "UserV3" >>, << "UserV2", "UserV3" >>,
                      << "CheckedV1", "CheckedV2", "ClearedV3" >> })
              => call'.err = NoErr
       /\ UpgradeStep =>
            LET nextContext == call.entry.versions[call'.version]
                new == Prepared(call.current, call.currentType, nextContext.rtype)
            IN  /\ \A i \in 1..NumField(nextContext.rtype) :
                      Suppressed(nextContext.rtype, i) => new[i] = Zero(nextContext.rtype)[i]
                /\ IsValid(nextContext.upgradeFunc) /\ call'.err = NoErr =>
                      call'.current
                          = Call(nextContext.upgradeFunc, << new, call.current >>).params[1]
                /\ ~IsValid(nextContext.upgradeFunc) => call'.current = new
                \* ClearedV3.Upgrade reads its A, which CheckedV2 declares too.
                /\ nextContext.rtype = "ClearedV3" =>
                      call'.current = << StrV(""), call.current[2] >>
      ]_vars

\* The step to ClearedV3 has been made from a CheckedV2 whose A is set: A
\* is empty and BA is as it was.
C15_Witness ==
    /\ call.op = "Unmarshal" /\ call.currentType = "ClearedV3"
    /\ call.detected = 1
    /\ call.current = << StrV(""), StrV("ba") >>

\* The Pack and Unpack methods a struct declares.
Hooks(T) == Methods(T) \cap { "Pack", "Unpack" }

NotLatest(hook) == "detected " \o hook \o " method on %v, which is not the latest version"

\* C16: registerError returns an error when a version that is not the last
\* declares a Pack or an Unpack method, so no entry has such a version; the
\* error names the method and the struct; a Pack and an Unpack method on
\* the last version are accepted.
C16_HooksOnLatestOnly ==
    /\ \A T \in DOMAIN entryByType :
          \A j \in 1..(entryByType[T].latestVersion - 1) :
              Hooks(entryByType[T].versions[j].rtype) = { }
    /\ call.op = "Register" /\ call.pc = "done" /\ StructsOnly(call) =>
          /\ (\E j \in 1..(Len(call.versionPrototypes) - 1) :
                  Hooks(call.versionPrototypes[j]) # { })
                 => call.err # NoErr
          /\ call.v.type \notin DOMAIN entryByType =>
                /\ call.versionPrototypes \in { << "ExampleV1", "ExampleOptV1" >>,
                                                 << "ExamplePackV1", "ExampleV1" >> }
                       => call.err = Errorf(NotLatest("Pack"), << call.versionPrototypes[1] >>)
                /\ call.versionPrototypes = << "ExampleUnpackV1", "ExampleV1" >>
                       => call.err = Errorf(NotLatest("Unpack"), << "ExampleUnpackV1" >>)
          /\ call.versionPrototypes \in { << "ExampleV1" >>, << "ExampleOptV1" >> }
                 => call.err \in { NoErr, AlreadyRegistered(call.v.type) }

\* The registry holds an entry whose last version declares Pack and Unpack,
\* and the registration of Example with ExampleV1 after ExampleUnpackV1 has
\* been rejected for the Unpack method.
C16_Witness ==
    /\ \E T \in DOMAIN entryByType :
          /\ IsValid(entryByType[T].marshal.packFunc)
          /\ IsValid(entryByType[T].unmarshal.unpackFunc)
    /\ call.op = "Register" /\ call.pc = "done"
    /\ call.versionPrototypes = << "ExampleUnpackV1", "ExampleV1" >>
    /\ call.err = Errorf(NotLatest("Unpack"), << "ExampleUnpackV1" >>)

\* The mappings between the fields two structs declare under the same name,
\* in the order of the fields of src.
SameNamed(src, dst) ==
    LET shared == SelectSeq([ i \in 1..NumField(src) |-> i ],
                            LAMBDA i : Declares(dst, Fields(src)[i].name))
    IN  [ n \in 1..Len(shared) |->
            mapping(shared[n] - 1, FieldNamed(dst, Fields(src)[shared[n]].name) - 1) ]

\* The members of an object other than its "Version".
Body(data) == SelectSeq(Members(data), LAMBDA x : x.key # "Version")

\* C17: in an entry stored whose latest version declares Pack the mappings from the
\* live type are empty, and Marshal encodes what Pack has made of a zero
\* struct, no field copied; in one whose latest version declares Unpack the
\* mappings to the live type are empty, and Unmarshal leaves the live value
\* as Unpack leaves it; with one hook only, the other direction has the
\* mappings of the fields of the same name, and its check of their types:
\* Example registers with ExampleV1, but not with ExamplePackV1 and not
\* with ExampleUnpackV1.
C17_HooksReplaceMapping ==
    [][/\ RegisterStep /\ Stored(call') =>
            LET T == call'.v.type
                e == entryByType'[call'.v.type]
            IN  /\ e.marshal.rtype = Latest(call')
                /\ IsValid(e.marshal.packFunc) <=> "Pack" \in Methods(e.marshal.rtype)
                /\ IsValid(e.unmarshal.unpackFunc) <=> "Unpack" \in Methods(e.marshal.rtype)
                /\ IsValid(e.marshal.packFunc) => e.marshal.mappings = << >>
                /\ IsValid(e.unmarshal.unpackFunc) => e.unmarshal.mappings = << >>
                /\ Hooks(e.marshal.rtype) = { "Pack" } =>
                      e.unmarshal.mappings = SameNamed(e.marshal.rtype, T)
                /\ Hooks(e.marshal.rtype) = { "Unpack" } =>
                      e.marshal.mappings = SameNamed(T, e.marshal.rtype)
       /\ RegisterStep /\ call'.v.type \notin DOMAIN entryByType =>
            /\ call'.versionPrototypes = << "ExampleV1" >> => call'.err = NoErr
            /\ call'.versionPrototypes \in { << "ExamplePackV1" >>, << "ExampleUnpackV1" >> }
                  => call'.err.text = DifferentTypes
       /\ MarshalStep /\ IsValid(entryByType[call'.v.type].marshal.packFunc) =>
            LET e == entryByType[call'.v.type]
                packed == Call(e.marshal.packFunc, << Zero(e.marshal.rtype), call'.v.val >>)
            IN  /\ Logged(call'.log, { "Pack", "copyFields" }) = << Ev("Pack", e.latestVersion) >>
                /\ Raised(packed) = NoErr =>
                      Body(call'.data)
                          = Body(jsonMarshal(e.marshal.rtype, packed.params[1]).data)
                /\ e.marshal.rtype = "SimplePackV1" =>
                      call'.data = Object(<< KV("Version", IntV(1)), KV("Text", StrV("")),
                                             KV("Number", IntV(call'.v.val[2].v + 1)) >>)
       /\ FinalizeStep /\ IsValid(call.entry.unmarshal.unpackFunc) =>
            /\ Logged(call'.log, { "Unpack", "copyLive" }) = << Ev("Unpack", call.version) >>
            /\ call'.live
                  = Call(call.entry.unmarshal.unpackFunc, << call.current, call.live >>).params[2]
            /\ call.currentType = "SimpleUnpackV1" =>
                  call'.live = << call.live[1], IntV(call.current[2].v + 1) >>
      ]_vars

\* Unmarshal into a Simple registered with SimpleUnpackV1 has left the Text
\* the live value had, which is not the one of the input.
C17_Witness ==
    /\ call.op = "Unmarshal" /\ call.pc = "done" /\ call.err = NoErr
    /\ call.currentType = "SimpleUnpackV1"
    /\ call.current = << StrV("hello"), IntV(42) >>
    /\ call.live = << StrV(""), IntV(43) >>

\* No field of the struct is an embedded struct.
NoEmbedded(T) == \A i \in 1..NumField(T) : ~Fields(T)[i].emb

\* The value of type dst with the fields dst and src declare under the same
\* name taken from the value of type src, and the others from old.
Overlaid(src, val, dst, old) ==
    [ k \in 1..NumField(dst) |->
        IF Declares(src, Fields(dst)[k].name)
        THEN val[FieldNamed(src, Fields(dst)[k].name)]
        ELSE old[k] ]

\* dst has the name of a field of src through an embedded struct only.
Promoted(src, dst) ==
    \E i \in 1..NumField(src) :
        /\ ~Declares(dst, Fields(src)[i].name)
        /\ FieldByName(dst, Fields(src)[i].name).ok

\* The struct with its Version field, if it declares one, set to n (line 550).
Stamped(T, val, n) ==
    IF Declares(T, "Version") THEN [val EXCEPT ![FieldNamed(T, "Version")] = IntV(n)] ELSE val

ByTags(prev, cur) ==
    { mapping(FieldNamed(prev, SourceName(Fields(cur)[i])) - 1, i - 1) :
        i \in { k \in 1..NumField(cur) :
                  ~Suppressed(cur, k) /\ Declares(prev, SourceName(Fields(cur)[k])) } }

\* A field of cur has a non-empty tag that names no field prev declares.
Unsourced(prev, cur) ==
    \E i \in 1..NumField(cur) :
        /\ Fields(cur)[i].hasTag /\ Fields(cur)[i].tag # ""
        /\ ~Declares(prev, Fields(cur)[i].tag)

\* The mappings of a list, as a set.
Listed(mappings) == { mappings[n] : n \in 1..Len(mappings) }

\* C19 (as amended): in the entry registerError stores, the vjson tags rule
\* the mappings between two versions only: those of version j are the ones
\* its tags ask for from version j-1,
\* each once, in the order of their source fields.  The mappings between the
\* live type and the latest version pair the fields of the same name: a
\* tagged field of the latest version is mapped from and to the live field
\* of its own name, not from the live field its tag names, and a tag that
\* names no field of the live type is no error.
C19_TagsBetweenVersionsOnly ==
    /\ Stored(call) =>
          LET T == call.v.type
              e == entryByType[call.v.type]
              last == Latest(call)
          IN  /\ \A j \in 2..e.latestVersion :
                    /\ Listed(e.versions[j].mappings) = ByTags(Shapes(e)[j - 1], Shapes(e)[j])
                    /\ Len(e.versions[j].mappings)
                          = Cardinality(ByTags(Shapes(e)[j - 1], Shapes(e)[j]))
                    /\ \A n \in 2..Len(e.versions[j].mappings) :
                          e.versions[j].mappings[n - 1].src <= e.versions[j].mappings[n].src
              /\ \A k \in 1..NumField(last) :
                    Fields(last)[k].hasTag /\ Declares(T, Fields(last)[k].name) =>
                        /\ "Pack" \notin Methods(last) =>
                              /\ \E m \in Listed(e.marshal.mappings) : m.dst = k - 1
                              /\ \A m \in Listed(e.marshal.mappings) :
                                    m.dst = k - 1 <=> m.src = FieldNamed(T, Fields(last)[k].name) - 1
                        /\ "Unpack" \notin Methods(last) =>
                              /\ \E m \in Listed(e.unmarshal.mappings) : m.src = k - 1
                              /\ \A m \in Listed(e.unmarshal.mappings) :
                                    m.src = k - 1 <=> m.dst = FieldNamed(T, Fields(last)[k].name) - 1
    /\ (call.op = "Register" /\ call.pc = "done" /\ call.v.type = "Renaming"
           /\ call.versionPrototypes = << "RenamingV1", "RenamingV2" >>)
          => /\ Unsourced(call.v.type, Latest(call))
             /\ call.err \in { NoErr, AlreadyRegistered(call.v.type) }

\* Renaming is registered with three versions: the Y of RenamingV3 is mapped
\* from the X of RenamingV2, as its tag asks, and from and to the Y of
\* Renaming.
C19_Witness ==
    /\ "Renaming" \in DOMAIN entryByType
    /\ Shapes(entryByType["Renaming"]) = << "RenamingV1", "RenamingV2", "RenamingV3" >>
    /\ entryByType["Renaming"].versions[3].mappings = << mapping(0, 0), mapping(0, 1) >>
    /\ entryByType["Renaming"].marshal.mappings = << mapping(0, 0), mapping(1, 1) >>
    /\ entryByType["Renaming"].unmarshal.mappings = << mapping(0, 0), mapping(1, 1) >>

\* C19 as the specification states it: the mappings from the live type to
\* the latest version, and from the latest version to the live type, are
\* the ones the tags of the destination ask for, as between two versions,
\* and a registration whose latest version has a tag that names no field of
\* the live type is rejected.
C19_AsStated ==
    /\ \A T \in DOMAIN entryByType :
          LET e == entryByType[T]
              last == e.marshal.rtype
          IN  /\ "Pack" \notin Methods(last) => Listed(e.marshal.mappings) = ByTags(T, last)
              /\ "Unpack" \notin Methods(last) => Listed(e.unmarshal.mappings) = ByTags(last, T)
    /\ (call.op = "Register" /\ call.pc = "done" /\ StructsOnly(call)
           /\ "Pack" \notin Methods(Latest(call)) /\ Unsourced(call.v.type, Latest(call)))
          => call.err # NoErr

\* C20: Unmarshal of the bytes null into a pointer to a registered type
\* returns no error at once: the live value is as it was, no version is
\* read, nothing is decoded and no hook is called.
C20_Null ==
    [][(call.op = "Unmarshal" /\ call.pc = "detect" /\ call.data = NullBytes) =>
            /\ call' = Return(call, NoErr)
            /\ call'.live = call'.before /\ ~call'.panic
            /\ call'.log = << >>
            /\ call'.version = 0 /\ call'.detected = 0
            /\ call'.currentType = NilType /\ call'.current = << >>
            /\ entryByType' = entryByType
      ]_vars

\* Unmarshal of null into a RawError, whose Unpack hook returns an error
\* whenever it is called, has returned none and left the value as it was.
C20_Witness ==
    /\ Resolved(call) /\ call.pc = "done" /\ call.data = NullBytes
    /\ call.v.type = "RawError" /\ IsValid(call.entry.unmarshal.unpackFunc)
    /\ call.err = NoErr /\ call.log = << >>
    /\ call.live = Sample("RawError") /\ call.before = call.live

(***************************************************************************)
(* Marshal of nil, and the version key.                                    *)
(***************************************************************************)
\* C21: a Marshal that was passed nil, or a nil pointer to a live type, has
\* returned the bytes null and no error, and has done nothing else: no
\* field copied, no Pack called, no version set or spliced in.
C21_NilIsNull ==
    (call.op = "Marshal" /\ call.pc = "done" /\ call.v.kind \in { "nil", "nilptr" }) =>
        /\ ~call.panic
        /\ call.err = NoErr
        /\ call.data = NullBytes
        /\ call.log = << >>

\* The latest version's value that Marshal hands to json.Marshal for the
\* live value val: what Pack has made of a zero struct, or the copy.
LatestValue(entry, val) ==
    IF IsValid(entry.marshal.packFunc)
    THEN Call(entry.marshal.packFunc, << Zero(entry.marshal.rtype), val >>).params[1]
    ELSE Copied(val, entry.marshal.rtype, entry.marshal.mappings)

\* C22: when the latest version declares no Version field, the bytes a
\* successful Marshal returns are an object whose first member is
\* "Version": N and whose other members are those of json.Marshal's object
\* for the latest version's value, in the same order; when that object is
\* empty the bytes are {"Version":N}, and {"Version":1} for Empty
\* registered with EmptyV1.
C22_VersionFirst ==
    (call.op = "Marshal" /\ call.pc = "done" /\ call.v.kind \in { "struct", "ptr" }
        /\ call.v.type \in DOMAIN entryByType
        /\ call.err = NoErr /\ ~call.panic
        /\ ~Declares(entryByType[call.v.type].marshal.rtype, "Version")) =>
        LET e == entryByType[call.v.type]
            body == jsonMarshal(e.marshal.rtype, LatestValue(e, call.v.val)).data
        IN  /\ e.marshal.versionField = 0 - 1
            /\ WellFormed(call.data)
            /\ Members(call.data)
                  = << KV("Version", IntV(e.latestVersion)) >> \o Members(body)
            /\ body = EmptyObject =>
                  call.data = << LBrace, KV("Version", IntV(e.latestVersion)), RBrace >>
            /\ e.marshal.rtype = "EmptyV1" =>
                  call.data = << LBrace, KV("Version", IntV(1)), RBrace >>

\* Marshal of a Simple registered with SimpleV1 has returned
\* {"Version":1,"Text":"hello","Number":42}.
C22_Witness ==
    /\ call.op = "Marshal" /\ call.pc = "done" /\ call.v.type = "Simple"
    /\ "Simple" \in DOMAIN entryByType
    /\ entryByType["Simple"].marshal.rtype = "SimpleV1"
    /\ call.data = Object(<< KV("Version", IntV(1)), KV("Text", StrV("hello")),
                             KV("Number", IntV(42)) >>)

(***************************************************************************)
(* Concurrent calls.                                                       *)
(***************************************************************************)
\* What the call c has returned when it is made alone with this registry.
Alone(registry, c) ==
    IF c.op = "Marshal" THEN Marshalled(c.v, 0, NilBytes, Marshal(registry, c.v))
    ELSE Unmarshal(registry, c.data, c.v, c.before)

\* C23: after the registrations, no step of a goroutine's Marshal or
\* Unmarshal changes the registry, whether the call succeeds or fails, and
\* however the steps of the goroutines are interleaved a call ends as the
\* same call made alone ends: the same bytes or live value, error and
\* hooks called.
C23_Concurrent ==
    [][/\ entryByType' = entryByType
       /\ \A t \in Threads :
            threads'[t].pc = "done" => threads'[t] = Alone(entryByType, threads'[t])
      ]_vars

\* One goroutine is in the upgrade loop of an Unmarshal into a User while
\* another has returned from an Unmarshal into a User with an error, and
\* the registry is that of the start.
C23_Witness ==
    /\ \E t \in Threads :
          /\ threads[t].op = "Unmarshal" /\ threads[t].pc = "upgrade"
          /\ threads[t].v.type = "User" /\ threads[t].version = 2
    /\ \E t \in Threads :
          /\ threads[t].op = "Unmarshal" /\ threads[t].pc = "done"
          /\ threads[t].v.type = "User" /\ threads[t].err # NoErr
    /\ entryByType = registerAll(<< >>, << Reg("User", << "UserV1", "UserV2", "UserV3" >>),
                                           Reg("Example", << "ExampleV1" >>) >>)

(***************************************************************************)
(* The versions of an entry.                                               *)
(***************************************************************************)
\* C24: the entry a registerError with N version prototypes has stored has
\* the versions 1, ..., N and no other, version i with the struct type of
\* the i-th prototype, and N as its latest version; every entry of the
\* registry has the versions 1 to its latest version.
C24_VersionNumbers ==
    /\ Stored(call) =>
          LET e == entryByType[call.v.type]
              N == Len(call.versionPrototypes)
          IN  /\ N >= 1
              /\ e.latestVersion = N
              /\ DOMAIN e.versions = 1..N
              /\ \A i \in 1..N : e.versions[i].rtype = call.versionPrototypes[i]
              /\ e.marshal.rtype = call.versionPrototypes[N]
    /\ \A T \in DOMAIN entryByType :
          /\ entryByType[T].latestVersion >= 1
          /\ DOMAIN entryByType[T].versions = 1..entryByType[T].latestVersion

\* Register(User{}, UserV1{}, UserV2{}, UserV3{}) has stored an entry
\* whose latest version is 3.
C24_Witness ==
    /\ Stored(call)
    /\ call.versionPrototypes = << "UserV1", "UserV2", "UserV3" >>
    /\ entryByType[call.v.type].latestVersion = 3

(***************************************************************************)
(* Fields of embedded structs.                                             *)
(***************************************************************************)
\* Every mapping of the list pairs a field of src with a field of dst of
\* the same declared type.
SameTypes(mappings, src, dst) ==
    \A n \in 1..Len(mappings) :
        /\ mappings[n].src + 1 \in 1..NumField(src)
        /\ mappings[n].dst + 1 \in 1..NumField(dst)
        /\ Fields(src)[mappings[n].src + 1].type = Fields(dst)[mappings[n].dst + 1].type

\* C25: in the entry registerError stores, every mapping between two
\* adjacent versions, from the live type to the latest version and from the
\* latest version to the live type pairs two direct fields of the same
\* declared type, also when a struct has the name through an embedded
\* struct only; and no Marshal of a value and no Unmarshal panics in
\* copying the fields.
C25_DirectFieldsOnly ==
    /\ Stored(call) =>
          LET e == entryByType[call.v.type]
          IN  /\ \A j \in 2..e.latestVersion :
                    SameTypes(e.versions[j].mappings, e.versions[j - 1].rtype,
                              e.versions[j].rtype)
              /\ SameTypes(e.marshal.mappings, call.v.type, e.marshal.rtype)
              /\ SameTypes(e.unmarshal.mappings, e.marshal.rtype, call.v.type)
    /\ (call.op = "Marshal" /\ call.pc = "done" /\ call.v.kind \in { "struct", "ptr" })
          => ~call.panic
    /\ (call.op = "Unmarshal" /\ call.pc = "done") => ~call.panic

(***************************************************************************)
(* The order of Unmarshal's steps.                                         *)
(***************************************************************************)
TargetError(v) ==
    IF v.kind = "nil" THEN Errorf("vjson: Unmarshal(nil)", << >>)
    ELSE IF v.kind = "nonptr" THEN Errorf("vjson: Unmarshal(non-pointer %v)", << v.type >>)
    ELSE Errorf("vjson: Unmarshal(nil %v)", << "*" \o v.type >>)

Unsupported(T, n) == Errorf("vjson: unsupported version for %v: %d", << T, Dec(n) >>)

\* The version read from the bytes, and the bytes decoded into a new
\* struct of that version of the entry.
Read(data) == unmarshalVersion(data).version
DecodedAt(entry, data) ==
    jsonUnmarshal(data, entry.versions[Read(data)].rtype,
                  Zero(entry.versions[Read(data)].rtype))

\* What an Unmarshal that has returned has done after its input was decoded
\* at the version it carries: steps of the upgrade loop, and then, unless
\* an Upgrade hook failed, the conversion to the live value as the last one.
ChainThenFinalize(c, rest) ==
    /\ \A i \in 1..Len(rest) :
          /\ rest[i].op \in { "New", "copyFields", "Upgrade", "Unpack", "copyLive" }
          /\ rest[i].op \in { "Unpack", "copyLive" } => i = Len(rest)
    /\ c.err # NoErr => rest # << >> /\ rest[Len(rest)].op \in { "Upgrade", "Unpack" }
    /\ c.err = NoErr => rest # << >> /\ rest[Len(rest)].op \in { "Unpack", "copyLive" }

\* C26 (as amended): an Unmarshal that has returned has taken its steps in
\* this order, and returned the error of the first that failed: the check
\* of the target (nil, no pointer, nil pointer); the lookup of the entry
\* (not registered), whatever the bytes are; the null shortcut; the
\* reading of the version (malformed input, negative version); the lookup
\* of the version (unsupported version); the decoding; the upgrade loop;
\* the conversion to the live value.
C26_StepOrder ==
    (call.op = "Unmarshal" /\ call.pc = "done") =>
        IF call.v.kind # "ptr"
        THEN call.err = TargetError(call.v) /\ call.log = << >>
        ELSE IF call.v.type \notin DOMAIN entryByType
        THEN call.err = NotRegistered(call.v.type) /\ call.log = << >>
        ELSE IF call.data = NullBytes
        THEN call.err = NoErr /\ call.log = << >>
        ELSE IF unmarshalVersion(call.data).err # NoErr
        THEN /\ call.err = unmarshalVersion(call.data).err
             /\ call.log = << Ev("unmarshalVersion", 0) >>
        ELSE IF Read(call.data) \notin 1..entryByType[call.v.type].latestVersion
        THEN /\ call.err = Unsupported(call.v.type, Read(call.data))
             /\ call.log = << Ev("unmarshalVersion", 0) >>
        ELSE IF DecodedAt(entryByType[call.v.type], call.data).err # NoErr
        THEN /\ call.err = DecodedAt(entryByType[call.v.type], call.data).err
             /\ call.log = << Ev("unmarshalVersion", 0), Ev("json.Unmarshal", Read(call.data)) >>
        ELSE /\ SubSeq(call.log, 1, 2)
                   = << Ev("unmarshalVersion", 0), Ev("json.Unmarshal", Read(call.data)) >>
             /\ ChainThenFinalize(call, SubSeq(call.log, 3, Len(call.log)))

\* Unmarshal of an object with a negative version into a type that has no
\* entry has returned the not registered error.
C26_Witness ==
    /\ call.op = "Unmarshal" /\ call.pc = "done" /\ call.v.kind = "ptr"
    /\ call.v.type \notin DOMAIN entryByType
    /\ Tagged(call.data, 0 - 1)
    /\ call.err = NotRegistered(call.v.type)

\* C26 as the specification states it: Detect comes first.  An Unmarshal
\* into a non-nil pointer whose bytes are null has returned no error, one
\* whose version cannot be read or is negative has returned that error, and
\* only then does a type without an entry give the not registered error.
C26_AsStated ==
    (call.op = "Unmarshal" /\ call.pc = "done" /\ call.v.kind = "ptr") =>
        IF call.data = NullBytes THEN call.err = NoErr
        ELSE IF unmarshalVersion(call.data).err # NoErr
        THEN call.err = unmarshalVersion(call.data).err
        ELSE call.v.type \notin DOMAIN entryByType => call.err = NotRegistered(call.v.type)

(***************************************************************************)
(* The live value.                                                         *)
(***************************************************************************)
\* The call has returned the error of its Unpack hook.
UnpackFailed(c) ==
    /\ c.pc = "done" /\ c.err # NoErr
    /\ c.log # << >> /\ c.log[Len(c.log)].op = "Unpack"

\* C27: no step of Unmarshal before the conversion to the live value
\* writes the live value; an Unmarshal that has returned an error for its
\* target, for a type without an entry, for a negative or an unsupported
\* version, from json.Unmarshal or from an Upgrade hook has left the live
\* value as it was before the call, and one that has returned an error with
\* the live value changed has returned the error of its Unpack hook, as
\* SimpleUnpackV1's, which has written Number by then.
C27_LiveInFinalizeOnly ==
    [][call'.op = "Unmarshal" =>
          /\ ~FinalizeStep => call'.live = call'.before
          /\ call'.before = (IF call.op = "Unmarshal" THEN call.before ELSE call'.live)
          /\ (call'.pc = "done" /\ call'.err # NoErr /\ ~UnpackFailed(call')) =>
                /\ call'.live = call'.before
                /\ \/ call'.err \in { TargetError(call'.v), NotRegistered(call'.v.type) }
                   \/ call'.log = << Ev("unmarshalVersion", 0) >>
                   \/ call'.log[Len(call'.log)].op \in { "json.Unmarshal", "Upgrade" }
          /\ (call'.pc = "done" /\ call'.err # NoErr /\ call'.live # call'.before) =>
                /\ FinalizeStep
                /\ UnpackFailed(call')
          \* SimpleUnpackV1.Unpack writes Number and then fails on an empty Text.
          /\ (FinalizeStep /\ call.currentType = "SimpleUnpackV1" /\ call.current[1].v = "") =>
                /\ call'.err = testError
                /\ call'.live = << call.before[1], IntV(call.current[2].v + 1) >>
      ]_vars

\* Unmarshal into an UpgradeError whose fields were set has returned the error
\* of UpgradeErrorV2's Upgrade hook, and the fields are as they were.
C27_Witness ==
    /\ call.op = "Unmarshal" /\ UpgradeFailed(call)
    /\ call.v.type = "UpgradeError"
    /\ call.before = Sample("UpgradeError") /\ call.live = call.before

(***************************************************************************)
(* The chain of mappings.                                                  *)
(***************************************************************************)
\* The field of version k (its index, from 1) whose value the mappings
\* carry, version by version, to field i of version j; 0 when the chain is
\* broken at some version between them.
RECURSIVE Origin(_, _, _, _)
Origin(entry, j, k, i) ==
    IF j = k THEN i
    ELSE IF ~Mapped(entry.versions[j].mappings, i - 1) THEN 0
    ELSE Origin(entry, j - 1, k,
                entry.versions[j].mappings[
                    CHOOSE n \in 1..Len(entry.versions[j].mappings) :
                        entry.versions[j].mappings[n].dst = i - 1].src + 1)

\* C28: while no Upgrade hook has run, a field of the struct Unmarshal is
\* at holds the value decoded from the input for the field of the detected
\* version that the mappings lead to, through every version between, and
\* is zero when that chain is broken at some version, also when the
\* detected version declares a field of its name and type; the live value
\* then gets the zero.  With Multiple registered with MultipleV2,
\* MultipleV1, MultipleV3, the C of a version 1 input is lost at version 2
\* and the live C is empty, while B arrives.
C28_Stepwise ==
    /\ (Decoded(call) /\ ~call.panic /\ call.err = NoErr
           /\ Hooked(call.entry, call.detected, call.version) = { }) =>
          \A i \in 1..NumField(call.currentType) :
              call.current[i]
                  = IF Origin(call.entry, call.version, call.detected, i) = 0
                    THEN Zero(call.currentType)[i]
                    ELSE DecodedAt(call.entry, call.data)
                             .val[Origin(call.entry, call.version, call.detected, i)]
    /\ (Decoded(call) /\ call.pc = "done" /\ ~call.panic /\ call.err = NoErr
           /\ Hooked(call.entry, call.detected, call.version) = { }
           /\ ~IsValid(call.entry.unmarshal.unpackFunc)
           /\ ~Promoted(call.currentType, call.v.type)) =>
          \A i \in 1..NumField(call.currentType) :
              (/\ Origin(call.entry, call.version, call.detected, i) = 0
               /\ Declares(call.v.type, Fields(call.currentType)[i].name)
               /\ Fields(call.currentType)[i].name # "Version") =>
                  call.live[FieldNamed(call.v.type, Fields(call.currentType)[i].name)]
                      = Zero(call.currentType)[i]
    /\ (Decoded(call) /\ call.pc = "done"
           /\ Shapes(call.entry) = << "MultipleV2", "MultipleV1", "MultipleV3" >>
           /\ call.detected = 1) =>
          /\ call.err = NoErr
          /\ call.live = << DecodedAt(call.entry, call.data).val[2], StrV(""), StrV("") >>

\* Unmarshal of {"A":"a","B":"b","C":"c"} into a Multiple registered with
\* MultipleV2, MultipleV1, MultipleV3 has left B = "b" and an empty C in
\* place of the "hello" the live value had.
C28_Witness ==
    /\ Decoded(call) /\ call.pc = "done" /\ call.err = NoErr
    /\ Shapes(call.entry) = << "MultipleV2", "MultipleV1", "MultipleV3" >>
    /\ call.data = Object(<< KV("A", StrV("a")), KV("B", StrV("b")), KV("C", StrV("c")) >>)
    /\ call.before = Sample("Multiple")
    /\ call.live = << StrV("b"), StrV(""), StrV("") >>

\* C29: an Unmarshal that has returned without an error, having converted
\* the latest version's struct by the mappings (no Unpack hook), has set
\* every field of the live value that a mapping of the entry has as its
\* destination to the mapping's source field of that struct, and has left
\* every other field of the live value as it was before the call, zero or
\* not.
C29_UnmappedFieldsStay ==
    (Decoded(call) /\ call.pc = "done" /\ call.err = NoErr /\ ~call.panic
        /\ ~IsValid(call.entry.unmarshal.unpackFunc)) =>
        LET ms == call.entry.unmarshal.mappings
        IN  /\ Len(call.live) = NumField(call.v.type)
            /\ \A k \in 1..NumField(call.v.type) :
                  IF Mapped(ms, k - 1)
                  THEN \E n \in 1..Len(ms) :
                          /\ ms[n].dst = k - 1
                          /\ call.live[k] = call.current[ms[n].src + 1]
                  ELSE call.live[k] = call.before[k]
            \* Multiple's D, which MultipleV2 does not declare.
            /\ call.currentType = "MultipleV2" /\ call.v.type = "Multiple" =>
                  call.live = << call.current[2], call.current[3], call.before[3] >>

\* Unmarshal into a Multiple registered with MultipleV1 and MultipleV2 has
\* written B and C and has left the D the live value had.
C29_Witness ==
    /\ Decoded(call) /\ call.pc = "done" /\ call.err = NoErr
    /\ call.v.type = "Multiple" /\ call.currentType = "MultipleV2"
    /\ call.before = Sample("Multiple")
    /\ call.live = << StrV("b"), StrV("c"), StrV("hello") >>

(***************************************************************************)
(* The types of one call to register.                                     *)
(***************************************************************************)
\* The live type and the version types are pairwise distinct.
Distinct(rtype, types) ==
    /\ \A i \in 1..Len(types) : types[i] # rtype
    /\ \A i, j \in 1..Len(types) : i # j => types[i] # types[j]

\* C30: registerError returns an error, and stores no entry, when a struct
\* type is passed for two versions or a version prototype has the type of
\* the live prototype; for a live type not yet registered and no earlier
\* failure the error names the second occurrence.  In every entry of the registry the live type and the
\* types of the versions are pairwise distinct.
C30_TypesDistinct ==
    /\ (call.op = "Register" /\ call.pc = "done") =>
          /\ ~Distinct(call.v.type, call.versionPrototypes) => call.err # NoErr
          /\ Stored(call) => Distinct(call.v.type, call.versionPrototypes)
          /\ (call.v.type = "Simple" /\ "Simple" \notin DOMAIN entryByType
                /\ call.versionPrototypes = << "SimpleV1", "SimpleV1" >>) =>
                call.err = Errorf("struct %v for version %d was already passed earlier in the same call to register",
                                  << "SimpleV1", Dec(2) >>)
          /\ (call.v.type = "Simple" /\ "Simple" \notin DOMAIN entryByType
                /\ call.versionPrototypes = << "Simple" >>) =>
                call.err = Errorf("struct %v for version %d was already passed earlier in the same call to register",
                                  << "Simple", Dec(1) >>)
    /\ \A T \in DOMAIN entryByType :
          Distinct(T, [i \in 1..entryByType[T].latestVersion |->
                          entryByType[T].versions[i].rtype])

\* Register(Simple{}, SimpleV1{}, SimpleV1{}) has returned the error of the
\* second SimpleV1.
C30_Witness ==
    /\ call.op = "Register" /\ call.pc = "done"
    /\ call.v.type = "Simple"
    /\ call.versionPrototypes = << "SimpleV1", "SimpleV1" >>
    /\ call.err = Errorf("struct %v for version %d was already passed earlier in the same call to register",
                         << "SimpleV1", Dec(2) >>)
    /\ entryByType = << >>

====
